---- MODULE Spec2Model ----
(***************************************************************************)
(* State-machine model of the ChargePoint polling adapter (src/main.js,    *)
(* class CptAdapter, second definition starting at line 429): the poll     *)
(* cycle updateAllStations, the car-SoC handler updateCarSoc ->            *)
(* handleCarContextChange, the notification attempt                        *)
(* attemptNotifyForStation and the channel fan-out.                        *)
(*                                                                         *)
(* Async functions are cut at the awaits that wait for real I/O (HTTP      *)
(* fetch, state-store get/set); an await of an already settled promise     *)
(* only defers to the microtask queue, which is drained before any other   *)
(* I/O continuation runs, so such code runs within one step.               *)
(***************************************************************************)
EXTENDS Integers, Sequences, FiniteSets, TLC

(***************************************************************************)
(* Values                                                                  *)
(***************************************************************************)
\* JavaScript undefined / null / a state that was never written
Undefined == -1
\* JavaScript NaN (the result of Number() on a non-numeric setting)
NaN == -2

\* Number.isFinite on the model's numbers (all real numbers are >= 0)
IsFinite(x) == x >= 0

\* Strings that the code transforms are sequences of one-character strings.
LowerOf == [c \in {"A", "B", "U", "L", "M"} |->
              CASE c = "A" -> "a" [] c = "B" -> "b" [] c = "U" -> "u"
                [] c = "L" -> "l" [] c = "M" -> "m"]

toLowerCaseChar(c) == IF c \in DOMAIN LowerOf THEN LowerOf[c] ELSE c

toLowerCase(s) == [i \in 1..Len(s) |-> toLowerCaseChar(s[i])]

AlnumLower == {"a", "b", "c", "d", "e", "f", "g", "h", "i", "j", "k", "l", "m",
               "n", "o", "p", "q", "r", "s", "t", "u", "v", "w", "x", "y", "z",
               "0", "1", "2", "3", "4", "5", "6", "7", "8", "9"}

RECURSIVE trimStart(_)
trimStart(s) == IF s # <<>> /\ Head(s) = " " THEN trimStart(Tail(s)) ELSE s

RECURSIVE trimEnd(_)
trimEnd(s) ==
    IF s # <<>> /\ s[Len(s)] = " " THEN trimEnd(SubSeq(s, 1, Len(s) - 1)) ELSE s

trim(s) == trimEnd(trimStart(s))

\* .replace(/_+/g, '_')
RECURSIVE CollapseUnderscores(_)
CollapseUnderscores(s) ==
    IF Len(s) < 2 THEN s
    ELSE IF s[1] = "_" /\ s[2] = "_" THEN CollapseUnderscores(Tail(s))
    ELSE <<s[1]>> \o CollapseUnderscores(Tail(s))

\* .replace(/^_+|_+$/g, '')
RECURSIVE StripUnderscores(_)
StripUnderscores(s) ==
    IF s # <<>> /\ Head(s) = "_" THEN StripUnderscores(Tail(s))
    ELSE IF s # <<>> /\ s[Len(s)] = "_" THEN StripUnderscores(SubSeq(s, 1, Len(s) - 1))
    ELSE s

makeSafeName(name) ==
    LET lower == toLowerCase(name)
        repl  == [i \in 1..Len(lower) |->
                    IF lower[i] \in AlnumLower THEN lower[i] ELSE "_"]
    IN StripUnderscores(CollapseUnderscores(repl))

Unbekannt == <<"U", "n", "b", "e", "k", "a", "n", "n", "t">>
unbekannt == <<"u", "n", "b", "e", "k", "a", "n", "n", "t">>
station_  == <<"s", "t", "a", "t", "i", "o", "n", "_">>

\* pickCity: the first city the responses carry, else 'Unbekannt'
pickCity(data1, data2) ==
    LET c1 == IF data1.ok THEN data1.city ELSE <<>>
        c2 == IF data2.ok THEN data2.city ELSE <<>>
        c  == IF c1 # <<>> THEN c1 ELSE IF c2 # <<>> THEN c2 ELSE Unbekannt
    IN IF trim(c) # <<>> THEN trim(c) ELSE Unbekannt

getStationKey(st) ==
    LET base == IF st.name # <<>> THEN st.name ELSE station_ \o st.deviceId1
    IN IF makeSafeName(base) # <<>> THEN makeSafeName(base)
       ELSE station_ \o st.deviceId1

\* `stations.${cityKey}.${stationKey}`
StationPrefix(city, st) ==
    << (IF makeSafeName(city) # <<>> THEN makeSafeName(city) ELSE unbekannt),
       getStationKey(st) >>

(***************************************************************************)
(* Configuration and environment inputs                                    *)
(***************************************************************************)
\* defaults applied by onReady when a setting is undefined, null or ''
DefaultSocBelow == 30
DefaultMaxDistanceM == 500
DefaultCooldownMin == 15

\* model time is counted in minutes: Date.now() / 60000
TickMin == 10
MaxNow == 21
\* longest port list one API response carries
MaxPorts == 1

Station(name, id1, id2, enabled, notify) ==
    [name |-> name, deviceId1 |-> id1, deviceId2 |-> id2, enabled |-> enabled,
     notifyOnAvailable |-> notify]

Channel(family, user, label, enabled) ==
    [instance |-> <<family, "0">>, user |-> user, label |-> label,
     enabled |-> enabled]

Subscription(station, recipient, enabled) ==
    [station |-> station, recipient |-> recipient, enabled |-> enabled]

NameAb == <<"A", " ", "b">>
CityUlm == <<"U", "l", "m">>

\* the strings a subscription's station selector is compared with
stationsDot == <<"s", "t", "a", "t", "i", "o", "n", "s", ".">>
namePrefix == <<"n", "a", "m", "e", ":">>
ALL == <<"_", "_", "A", "L", "L", "_", "_">>

\* String(stationPrefixRel) for the prefix <<cityKey, stationKey>>
PrefixString(prefix) == stationsDot \o prefix[1] \o <<".">> \o prefix[2]

ChannelList ==
    << Channel("telegram.", <<"a">>, <<"A", "b">>, TRUE),
       Channel("whatsapp-cmb.", <<>>, <<"b">>, TRUE),
       Channel("email.", <<>>, <<"a", "b">>, TRUE),
       Channel("pushover.", <<>>, <<"a", "b">>, FALSE) >>

SubKeyUlm == Subscription(stationsDot \o <<"u", "l", "m", ".", "a", "_", "b">>,
                          <<"a", "b">>, TRUE)
SubAll == Subscription(ALL, <<"A", "B">>, TRUE)
SubName == Subscription(namePrefix \o <<" ", "a", " ", "B", " ">>, <<"b">>, TRUE)
SubDisabled == Subscription(ALL, <<"b">>, FALSE)
SubEmpty == Subscription(<<" ">>, <<"b">>, TRUE)

StationOn == Station(NameAb, <<"7">>, <<>>, TRUE, TRUE)
StationOff == Station(NameAb, <<"7">>, <<>>, TRUE, FALSE)

\* raw settings: Undefined (left unset), NaN (not a number) or a number
Config(stations, subscriptions, socBelow, maxDistanceM, cooldownMin) ==
    [stations |-> stations, channels |-> ChannelList,
     channelsKind |-> "array", subscriptions |-> subscriptions,
     subscriptionsKind |-> "array", notifySocBelow |-> socBelow,
     notifyMaxDistanceM |-> maxDistanceM, notifyCooldownMin |-> cooldownMin]

Configs ==
    { Config(<<StationOn>>, <<>>, Undefined, Undefined, Undefined),
      Config(<<StationOn>>, <<>>, NaN, NaN, 0),
      Config(<<StationOff>>, <<SubKeyUlm, SubAll>>, Undefined, Undefined, 0),
      Config(<<StationOff>>, <<SubName>>, NaN, Undefined, Undefined),
      Config(<<StationOff>>, <<SubDisabled, SubEmpty>>, Undefined, NaN, 0) }

\* what safeFetch returns: null (ok = FALSE) or the response data
NullData == [ok |-> FALSE, city |-> <<>>, ports |-> <<>>, distM |-> Undefined]

PortChoices ==
    { [status |-> "", statusV2 |-> "AVAILABLE"],
      [status |-> "available", statusV2 |-> "in_use"] }

RECURSIVE SeqsUpTo(_, _)
SeqsUpTo(S, n) ==
    IF n = 0 THEN {<<>>}
    ELSE LET shorter == SeqsUpTo(S, n - 1)
         IN shorter \cup {Append(q, x) : q \in shorter, x \in S}

\* the distance haversineKm yields between the car and the station's GPS
\* position (Undefined: the response carries no position)
DistChoices == {Undefined, DefaultMaxDistanceM, DefaultMaxDistanceM + 50}

\* variant: a request that neither answers nor is abandoned
NoResponse == {}

FetchResults ==
    {NullData} \cup
    [ok : {TRUE}, city : {CityUlm}, ports : SeqsUpTo(PortChoices, MaxPorts),
     distM : DistChoices]

\* values a foreign car-SoC state can carry
SocChoices == {Undefined, DefaultSocBelow - 1, DefaultSocBelow}

(***************************************************************************)
(* State                                                                   *)
(***************************************************************************)
VARIABLES
    config,                   \* the instance configuration (fixed at start)
    now,                      \* Date.now(), in minutes
    carSoc,                   \* this.carSoc
    states,                   \* the state store: prefix -> station states
    lastFreePortsByStation,   \* prefix -> free ports at the last poll
    notifyMetaByStation,      \* prefix -> [inRange, notified, lastSent]
    stationPrefixes,          \* prefixes remembered for the car handler
    stationInfoByPrefix,      \* prefix -> [city, name]
    poll,                     \* the running updateAllStations call
    car,                      \* the running handleCarContextChange call
    attempt,                  \* caller -> its attemptNotifyForStation call
    out,                      \* messages handed to sendTo by the last step
    obs,                      \* the attempt the last step called or completed
    cycleStart,               \* lastFreePortsByStation when the cycle started
    sentInPhase,              \* station name -> real notifications sent since
                              \*   a poll cycle last computed freePorts = 0
    freeSeen,                 \* station name -> the last poll cycle computed
                              \*   freePorts > 0
    lastRealAt,               \* station name -> time of the last real one
    fan,                      \* the last messaging operation and its sendTo calls
    norm,                     \* the last merge of API responses into ports
    io,                       \* the fetches and state writes of the last step
    overlap,                  \* a second updateAllStations call, while the
                              \* event loop runs the one in poll
    stationPrefixByName,      \* station name -> the prefix last built for it
    pollInterval,             \* this.pollInterval: unset, running or cleared
    lifecycle                 \* onReady's position, and whether onUnload ran

vars == <<config, now, carSoc, states, lastFreePortsByStation,
          notifyMetaByStation, stationPrefixes, stationInfoByPrefix, poll, car,
          attempt, out, obs, cycleStart, sentInPhase, freeSeen, lastRealAt,
          fan, norm, io, overlap, stationPrefixByName, pollInterval,
          lifecycle>>

Callers == {"poll", "car"}

\* settings as onReady derives them from the configuration
ConfigNumber(raw, default) == IF raw = Undefined THEN default ELSE raw

notifySocBelow == ConfigNumber(config.notifySocBelow, DefaultSocBelow)
notifyMaxDistanceM == ConfigNumber(config.notifyMaxDistanceM, DefaultMaxDistanceM)
notifyCooldownMin == ConfigNumber(config.notifyCooldownMin, DefaultCooldownMin)

StationNames == {config.stations[i].name : i \in 1..Len(config.stations)}

(***************************************************************************)
(* Status normalizer                                                       *)
(***************************************************************************)
LowerWord(w) == IF w = "AVAILABLE" THEN "available" ELSE w

\* variant without the unknown default
normalizeStatusRaw(val) == LowerWord(val)

normalizeStatus(val) == IF val = "" THEN "unknown" ELSE LowerWord(val)

\* variant that reads the status field only
PortStatusLegacy(p) == normalizeStatus(p.status)

\* normalizeStatus(p?.statusV2 || p?.status)
PortStatus(p) == normalizeStatus(IF p.statusV2 # "" THEN p.statusV2 ELSE p.status)

FirstPort(data) ==
    IF data.ok /\ data.ports # <<>> THEN data.ports[1]
    ELSE [status |-> "", statusV2 |-> ""]

\* variant that ignores the second device
buildLogicalPortsSingle(data1, data2, hasSecondId) ==
    IF data1.ok THEN data1.ports ELSE <<>>

buildLogicalPorts(data1, data2, hasSecondId) ==
    IF hasSecondId
    THEN << [status |-> FirstPort(data1).status,
             statusV2 |-> FirstPort(data1).statusV2, outletNumber |-> 1],
            [status |-> FirstPort(data2).status,
             statusV2 |-> FirstPort(data2).statusV2, outletNumber |-> 2] >>
    ELSE IF data1.ok THEN data1.ports ELSE <<>>

RECURSIVE CountFree(_)
CountFree(ports) ==
    IF ports = <<>> THEN 0
    ELSE (IF PortStatus(Head(ports)) = "available" THEN 1 ELSE 0)
         + CountFree(Tail(ports))

\* variant without precedence: the status of the first port
deriveFirstStatus(ports) ==
    IF ports # <<>> THEN PortStatus(ports[1]) ELSE "unknown"

\* the status of the station as a whole
deriveStationStatusFromPorts(ports) ==
    LET statuses == [i \in 1..Len(ports) |-> PortStatus(ports[i])]
        some(S) == \E i \in 1..Len(statuses) : statuses[i] \in S
    IN IF some({"in_use", "charging", "occupied"}) THEN "in_use"
       ELSE IF some({"available"}) THEN "available"
       ELSE IF some({"unavailable", "out_of_service", "faulted", "offline"})
       THEN "unavailable"
       ELSE IF statuses # <<>> THEN statuses[1]
       ELSE "unknown"

(***************************************************************************)
(* Channel fan-out                                                         *)
(***************************************************************************)
\* what getActiveChannels and getSubscriptions make of a configuration value
\* before filtering: an array is used as it is, an object gives the array of
\* its values, a string is parsed as JSON; whatever is not an array after
\* that counts as the empty array.  kind tells the shape of the value, items
\* the entries an array, an object or a JSON array text holds.
ConfigKinds ==
    {"array", "object", "jsonArray", "jsonOther", "badJson", "other"}

\* variant that accepts nothing but an array
ParseListArrayOnly(kind, items) == IF kind = "array" THEN items ELSE <<>>

ParseList(kind, items) ==
    IF kind \in {"array", "object", "jsonArray"} THEN items ELSE <<>>

ChannelArray == ParseList(config.channelsKind, config.channels)

getSubscriptions == ParseList(config.subscriptionsKind, config.subscriptions)

SupportedFamilies == {"telegram.", "whatsapp-cmb.", "pushover."}

\* variant without the supported-family filter
getActiveChannelsAnyFamily(onlyLabel) ==
    LET enabled == SelectSeq(ChannelArray,
                             LAMBDA c : c.enabled /\ c.instance # <<>>)
    IN IF onlyLabel # <<>>
       THEN SelectSeq(enabled, LAMBDA c : toLowerCase(trim(c.label))
                                            = toLowerCase(onlyLabel))
       ELSE enabled

\* ctx.onlyLabel = <<>> : no label filter
getActiveChannels(onlyLabel) ==
    LET enabled == SelectSeq(ChannelArray,
                             LAMBDA c : c.enabled /\ c.instance # <<>>)
        trimmed == [i \in 1..Len(enabled) |->
                      [instance |-> enabled[i].instance,
                       user |-> trim(enabled[i].user),
                       label |-> trim(enabled[i].label)]]
        allowed == SelectSeq(trimmed,
                             LAMBDA c : c.instance[1] \in SupportedFamilies)
    IN IF onlyLabel # <<>>
       THEN SelectSeq(allowed,
                      LAMBDA c : toLowerCase(c.label) = toLowerCase(onlyLabel))
       ELSE allowed

\* one sendTo per selected channel
sendMessageToChannels(stationName, isTest, onlyLabel) ==
    LET channels == getActiveChannels(onlyLabel)
    IN [i \in 1..Len(channels) |->
          [instance |-> channels[i].instance, station |-> stationName,
           isTest |-> isTest]]

startsWith(s, pre) == Len(s) >= Len(pre) /\ SubSeq(s, 1, Len(pre)) = pre

\* the filter of notifySubscribers
SubscriptionMatches(s, stationPrefixRel, stationName) ==
    LET st == trim(s.station)
    IN /\ s.enabled
       /\ st # <<>>
       /\ \/ st = ALL
          \/ /\ st # ALL
             /\ startsWith(st, namePrefix)
             /\ toLowerCase(stationName)
                  = toLowerCase(trim(SubSeq(st, Len(namePrefix) + 1, Len(st))))
          \/ /\ st # ALL
             /\ ~startsWith(st, namePrefix)
             /\ st = PrefixString(stationPrefixRel)

RECURSIVE SendToRecipients(_, _, _)
SendToRecipients(matches, stationName, isTest) ==
    IF matches = <<>> THEN <<>>
    ELSE LET recipientLabel == trim(Head(matches).recipient)
         IN (IF recipientLabel = <<>> THEN <<>>
             ELSE sendMessageToChannels(stationName, isTest, recipientLabel))
            \o SendToRecipients(Tail(matches), stationName, isTest)

\* the messages notifySubscribers hands to sendTo, in order
notifySubscribers(stationPrefixRel, stationName, isTest) ==
    LET matches == SelectSeq(getSubscriptions,
                     LAMBDA s : SubscriptionMatches(s, stationPrefixRel, stationName))
    IN IF matches = <<>>
       THEN sendMessageToChannels(stationName, isTest, <<>>)
       ELSE SendToRecipients(matches, stationName, isTest)

(***************************************************************************)
(* Payloads and the send loop                                              *)
(***************************************************************************)
\* JavaScript values of payload fields: undefined, or a string
JsUndefined == <<"undefined">>
Str(s) == <<"string", s>>

\* a || undefined for a string a
OrUndefined(a) == IF a # <<>> THEN Str(a) ELSE JsUndefined

Truthy(v) == v # JsUndefined /\ v # Str(<<>>)

\* the context sendMessageToChannels is called with
Ctx(station, city, freePorts, portCount) ==
    [station |-> station, city |-> city, status |-> JsUndefined,
     freePorts |-> freePorts, portCount |-> portCount]

EmptyCtx == Ctx(JsUndefined, JsUndefined, JsUndefined, JsUndefined)

TestText == <<"CPT Test: Kommunikation OK">>

\* the text of sendAvailableNotification
AvailableText(isTest) ==
    (IF isTest THEN <<"TEST: ">> ELSE <<>>) \o <<"Ladestation ist nun frei">>

\* variant that addresses every family by user
FamilyPayloadByUser(inst, u, lbl, text) ==
    [text |-> Str(text), user |-> OrUndefined(u)]

\* lines 634-663 (and 2268-2288): the payload by adapter family
FamilyPayload(inst, u, lbl, text) ==
    IF inst[1] = "telegram."
    THEN ("text" :> Str(text))
         @@ (IF u # <<>> THEN ("user" :> Str(u)) ELSE <<>>)
    ELSE IF inst[1] = "whatsapp-cmb."
    THEN [phone |-> OrUndefined(u), number |-> OrUndefined(u),
          to |-> OrUndefined(u), text |-> Str(text), message |-> Str(text),
          title |-> Str(<<"ChargePoint">>), channelLabel |-> OrUndefined(lbl)]
    ELSE IF inst[1] = "open-wa."
    THEN [to |-> OrUndefined(u), text |-> Str(text)]
    ELSE IF inst[1] = "pushover."
    THEN [message |-> Str(text), sound |-> Str(<<>>)]
    ELSE [text |-> Str(text)]

\* payload[k] = v unless the payload already has a defined value for k
SetIfUndefined(payload, k, v) ==
    IF k \in DOMAIN payload /\ payload[k] # JsUndefined THEN payload
    ELSE (k :> v) @@ payload

\* lines 663-667: context fields are copied into the payload
AddContext(payload, ctx) ==
    LET p1 == IF Truthy(ctx.city)
              THEN SetIfUndefined(payload, "city", ctx.city) ELSE payload
        p2 == IF Truthy(ctx.station)
              THEN SetIfUndefined(p1, "station", ctx.station) ELSE p1
        p3 == IF Truthy(ctx.status)
              THEN SetIfUndefined(p2, "status", ctx.status) ELSE p2
        p4 == IF ctx.freePorts # JsUndefined
              THEN SetIfUndefined(p3, "freePorts", ctx.freePorts) ELSE p3
    IN IF ctx.portCount # JsUndefined
       THEN SetIfUndefined(p4, "portCount", ctx.portCount) ELSE p4

\* variant that keeps undefined fields
KeepUndefined(payload) == payload

\* line 669: keys with an undefined value are deleted
PruneUndefined(payload) ==
    [k \in {x \in DOMAIN payload : payload[x] # JsUndefined} |-> payload[k]]

buildPayload(ch, text, ctx) ==
    PruneUndefined(AddContext(
        FamilyPayload(ch.instance, ch.user, ch.label, text), ctx))

\* variant of the loop that stops at the first sendTo that throws
RECURSIVE sendLoopAbort(_, _, _, _)
sendLoopAbort(channels, text, ctx, throws) ==
    IF channels = <<>> THEN <<>>
    ELSE LET ch == Head(channels)
             call == [instance |-> ch.instance, channel |-> ch,
                      payload |-> buildPayload(ch, text, ctx),
                      threw |-> ch.instance \in throws]
         IN IF call.threw THEN <<call>>
            ELSE <<call>> \o sendLoopAbort(Tail(channels), text, ctx, throws)

\* lines 634-680: the loop of sendMessageToChannels over the selected
\* channels; throws is the set of instances whose sendTo throws.  One record
\* per sendTo call, in order.
RECURSIVE sendLoop(_, _, _, _)
sendLoop(channels, text, ctx, throws) ==
    IF channels = <<>> THEN <<>>
    ELSE LET ch == Head(channels)
         IN << [instance |-> ch.instance, channel |-> ch,
                payload |-> buildPayload(ch, text, ctx),
                threw |-> ch.instance \in throws] >>
            \o sendLoop(Tail(channels), text, ctx, throws)

\* ok and failed as sendMessageToChannels counts them
CountOk(calls) == Len(SelectSeq(calls, LAMBDA c : ~c.threw))
CountFailed(calls) == Len(SelectSeq(calls, LAMBDA c : c.threw))

\* lines 712-722: the loop of notifySubscribers over the matching
\* subscriptions; the sendTo calls of all its sendAvailableNotification calls
RECURSIVE recipientsLoop(_, _, _, _)
recipientsLoop(matches, text, ctx, throws) ==
    IF matches = <<>> THEN <<>>
    ELSE LET recipientLabel == trim(Head(matches).recipient)
         IN (IF recipientLabel = <<>> THEN <<>>
             ELSE sendLoop(getActiveChannels(recipientLabel), text, ctx,
                           throws))
            \o recipientsLoop(Tail(matches), text, ctx, throws)

\* variant that ignores the subscriptions
notifyCallsToAll(stationPrefixRel, stationName, isTest, ctx, throws) ==
    sendLoop(getActiveChannels(<<>>), AvailableText(isTest), ctx, throws)

\* lines 695-724: the sendTo calls of one notifySubscribers call
notifyCalls(stationPrefixRel, stationName, isTest, ctx, throws) ==
    LET matches == SelectSeq(getSubscriptions,
                     LAMBDA s : SubscriptionMatches(s, stationPrefixRel,
                                                    stationName))
    IN IF matches = <<>>
       THEN sendLoop(getActiveChannels(<<>>), AvailableText(isTest), ctx,
                     throws)
       ELSE recipientsLoop(matches, AvailableText(isTest), ctx, throws)

\* lines 708-710 and 723: the value one notifySubscribers call returns; on
\* the fallback path the counts of sendMessageToChannels, with subscriptions
\* matching the number of matches and no failure
notifyResult(stationPrefixRel, stationName, isTest, ctx, throws) ==
    LET matches == SelectSeq(getSubscriptions,
                     LAMBDA s : SubscriptionMatches(s, stationPrefixRel,
                                                    stationName))
        calls == notifyCalls(stationPrefixRel, stationName, isTest, ctx, throws)
    IN IF matches = <<>>
       THEN [ok |-> CountOk(calls), failed |-> CountFailed(calls)]
       ELSE [ok |-> Len(matches), failed |-> 0]

(***************************************************************************)
(* Notification eligibility                                                *)
(***************************************************************************)
\* variant that also counts disabled subscriptions
stationHasNotifyTargetAnySub(stationPrefixRel, stationName) ==
    \E i \in 1..Len(getSubscriptions) :
        LET s == getSubscriptions[i]
            stVal == trim(s.station)
        IN /\ stVal # <<>>
           /\ \/ stVal = ALL
              \/ /\ startsWith(stVal, namePrefix)
                 /\ toLowerCase(stationName)
                      = toLowerCase(trim(SubSeq(stVal, Len(namePrefix) + 1,
                                                Len(stVal))))
              \/ stVal = PrefixString(stationPrefixRel)

stationHasNotifyTarget(stationPrefixRel, stationName) ==
    \E i \in 1..Len(getSubscriptions) :
        LET s == getSubscriptions[i]
            stVal == trim(s.station)
        IN /\ s.enabled
           /\ stVal # <<>>
           /\ \/ stVal = ALL
              \/ /\ stVal # ALL
                 /\ startsWith(stVal, namePrefix)
                 /\ toLowerCase(stationName)
                      = toLowerCase(trim(SubSeq(stVal, Len(namePrefix) + 1,
                                                Len(stVal))))
              \/ /\ stVal # ALL
                 /\ ~startsWith(stVal, namePrefix)
                 /\ stVal = PrefixString(stationPrefixRel)

\* variant of the SoC filter that lets an unknown SoC pass
SocOkFailOpen(soc) ==
    IF IsFinite(notifySocBelow)
    THEN ~IsFinite(soc) \/ soc < notifySocBelow
    ELSE TRUE

\* the SoC half of passesNotifyFilters (runs before its await)
SocOk(soc) ==
    IF IsFinite(notifySocBelow)
    THEN IsFinite(soc) /\ soc < notifySocBelow
    ELSE TRUE

\* variant of the distance filter with a strict comparison
DistanceOkStrict(d) ==
    IF IsFinite(notifyMaxDistanceM)
    THEN IsFinite(d) /\ d < notifyMaxDistanceM
    ELSE TRUE

\* the distance half of passesNotifyFilters; d is the distance.m read
DistanceOk(d) ==
    IF IsFinite(notifyMaxDistanceM)
    THEN IsFinite(d) /\ d <= notifyMaxDistanceM
    ELSE TRUE

DefaultMeta == [inRange |-> FALSE, notified |-> FALSE, lastSent |-> 0]

\* getNotifyMeta creates the entry on first use
getNotifyMeta(meta, prefix) ==
    IF prefix \in DOMAIN meta THEN meta ELSE meta @@ (prefix :> DefaultMeta)

\* variant without a cooldown gate
InCooldownOff(lastSent, t) == FALSE

\* the cooldown gate of attemptNotifyForStation
InCooldown(lastSent, t) ==
    LET cdMin == IF IsFinite(notifyCooldownMin) THEN notifyCooldownMin ELSE 0
    IN cdMin > 0 /\ lastSent # 0 /\ t - lastSent < cdMin

getExitDistanceM ==
    IF ~IsFinite(notifyMaxDistanceM) \/ notifyMaxDistanceM <= 0 THEN Undefined
    ELSE (notifyMaxDistanceM * 11 + 5) \div 10

\* one value of a station state; Undefined when the state does not exist
ReadState(prefix, field) ==
    IF prefix \in DOMAIN states THEN states[prefix][field] ELSE Undefined

\* [prev, now] of computeInRange for distance d and the previous inRange
InRangeNow(prev, d) ==
    IF ~IsFinite(d) THEN FALSE
    ELSE IF prev
         THEN ~(IsFinite(getExitDistanceM) /\ d >= getExitDistanceM)
         ELSE IsFinite(notifyMaxDistanceM) /\ d <= notifyMaxDistanceM

\* variants of the transition test: a missing record counted as 0; no record
\* consulted at all
becameFreeFromUnknown(prevFree, freePorts) ==
    (prevFree = Undefined \/ prevFree = 0) /\ freePorts > 0

becameFreeLevel(prevFree, freePorts) == freePorts > 0

\* the transition test of updateAllStations
becameFree(prevFree, freePorts) ==
    prevFree # Undefined /\ prevFree = 0 /\ freePorts > 0

(***************************************************************************)
(* Initial state: the adapter after construction, nothing polled yet       *)
(***************************************************************************)
IdlePoll == [pc |-> "idle", i |-> 0, prefix |-> <<>>, stationName |-> <<>>,
             freePorts |-> 0, prevFree |-> Undefined, currentPrefixes |-> {},
             failed |-> {}]

IdleCar == [pc |-> "idle", i |-> 0]

IdleAttempt == [pc |-> "idle", prefix |-> <<>>, stationName |-> <<>>,
                freePorts |-> 0, notifyEnabled |-> FALSE, hasSubs |-> FALSE,
                soc |-> Undefined]

\* no messaging operation yet
NoFan == [op |-> "none", selected |-> <<>>, sent |-> <<>>, ok |-> 0,
          failed |-> 0, raised |-> FALSE, throws |-> {}, text |-> <<>>,
          stationPrefixRel |-> <<>>, stationName |-> <<>>, instance |-> <<>>,
          user |-> <<>>, returned |-> [ok |-> 0, failed |-> 0]]

\* no responses merged yet
NoNorm == [hasSecondId |-> FALSE, data1 |-> NullData, data2 |-> NullData,
           ports |-> <<>>, portCount |-> 0, freePorts |-> 0,
           derived |-> "unknown"]

\* no station processed by the last step
NoIo == [kind |-> "none", i |-> 0, prefix |-> <<>>, fetched |-> <<>>,
         failed |-> {}, ports |-> <<>>, portCount |-> 0, freePorts |-> 0,
         statusDerived |-> "", lastUpdate |-> Undefined, data1 |-> NullData,
         data2 |-> NullData, written |-> {}]

\* onReady has not reached its station loop, onUnload has not run
NotReady == [onReady |-> "start", i |-> 0, unloaded |-> FALSE]

\* no second updateAllStations call
NoOverlap == [poll |-> IdlePoll, attempt |-> IdleAttempt]

NoObs == [kind |-> "none", caller |-> "", prefix |-> <<>>, stationName |-> <<>>,
          freePorts |-> 0, notifyEnabled |-> FALSE, soc |-> Undefined,
          distanceM |-> Undefined]

Init ==
    /\ config \in Configs
    /\ now = 1
    /\ carSoc = Undefined
    /\ states = <<>>
    /\ lastFreePortsByStation = <<>>
    /\ notifyMetaByStation = <<>>
    /\ stationPrefixes = <<>>
    /\ stationInfoByPrefix = <<>>
    /\ poll = IdlePoll
    /\ car = IdleCar
    /\ attempt = [c \in Callers |-> IdleAttempt]
    /\ out = <<>>
    /\ obs = NoObs
    /\ cycleStart = <<>>
    /\ sentInPhase = [n \in StationNames |-> 0]
    /\ freeSeen = [n \in StationNames |-> FALSE]
    /\ lastRealAt = [n \in StationNames |-> 0]
    /\ fan = NoFan
    /\ norm = NoNorm
    /\ io = NoIo
    /\ overlap = NoOverlap
    /\ stationPrefixByName = <<>>
    /\ pollInterval = "unset"
    /\ lifecycle = NotReady

(***************************************************************************)
(* attemptNotifyForStation                                                 *)
(***************************************************************************)
\* updateAllStations after its station's notify logic (line 1483): commit the
\* transition record and go on with the next station
\* variant that moves on without writing the transition record
PollResumeNoCommit ==
    /\ poll' = [IdlePoll EXCEPT
                  !.pc = IF poll.i < Len(config.stations) THEN "fetch" ELSE "cleanup",
                  !.i = poll.i + 1,
                  !.currentPrefixes = poll.currentPrefixes]
    /\ UNCHANGED <<car, lastFreePortsByStation>>

PollResume ==
    /\ lastFreePortsByStation' =
           (poll.prefix :> poll.freePorts) @@ lastFreePortsByStation
    /\ poll' = [IdlePoll EXCEPT
                  !.pc = IF poll.i < Len(config.stations) THEN "fetch" ELSE "cleanup",
                  !.i = poll.i + 1,
                  !.currentPrefixes = poll.currentPrefixes]
    /\ UNCHANGED car

\* handleCarContextChange after its attempt: next prefix
CarResume ==
    /\ car' = [car EXCEPT !.pc = "visit", !.i = car.i + 1]
    /\ UNCHANGED <<poll, lastFreePortsByStation>>

Resume(caller) == IF caller = "poll" THEN PollResume ELSE CarResume

Suspend(caller) ==
    /\ poll' = IF caller = "poll" THEN [poll EXCEPT !.pc = "attempt"] ELSE poll
    /\ car' = IF caller = "car" THEN [car EXCEPT !.pc = "attempt"] ELSE car
    /\ UNCHANGED lastFreePortsByStation

\* lines 1239-1257: the gates before the first state read.  meta is the
\* notify-meta map as the caller leaves it.
AttemptStart(caller, meta, prefix, stationName, freePorts) ==
    LET m == getNotifyMeta(meta, prefix)
    IN /\ out' = <<>>
       /\ obs' = [NoObs EXCEPT !.kind = "called", !.caller = caller,
                               !.prefix = prefix, !.stationName = stationName,
                               !.freePorts = freePorts]
       /\ UNCHANGED <<sentInPhase, freeSeen, lastRealAt>>
       /\ IF ~(freePorts > 0)
          THEN /\ notifyMetaByStation' = [m EXCEPT ![prefix].notified = FALSE]
               /\ UNCHANGED attempt
               /\ Resume(caller)
          ELSE IF m[prefix].notified \/ InCooldown(m[prefix].lastSent, now)
          THEN /\ notifyMetaByStation' = m
               /\ UNCHANGED attempt
               /\ Resume(caller)
          ELSE /\ notifyMetaByStation' = m
               /\ attempt' = [attempt EXCEPT ![caller] =
                                [IdleAttempt EXCEPT !.pc = "readNotify",
                                                    !.prefix = prefix,
                                                    !.stationName = stationName,
                                                    !.freePorts = freePorts]]
               /\ Suspend(caller)

\* variant of the send that does not mark the free phase as notified
AttemptSendNoMark(caller, notifyEnabled, soc, d) ==
    LET a == attempt[caller]
    IN /\ out' = notifySubscribers(a.prefix, a.stationName, FALSE)
       /\ obs' = [kind |-> "sent", caller |-> caller, prefix |-> a.prefix,
                  stationName |-> a.stationName, freePorts |-> a.freePorts,
                  notifyEnabled |-> notifyEnabled, soc |-> soc,
                  distanceM |-> d]
       /\ notifyMetaByStation' =
              [notifyMetaByStation EXCEPT ![a.prefix].lastSent = now]
       /\ sentInPhase' =
              IF a.stationName \in DOMAIN sentInPhase
              THEN [sentInPhase EXCEPT ![a.stationName] =
                      IF @ = 0 THEN 1 ELSE 2]
              ELSE sentInPhase
       /\ UNCHANGED freeSeen
       /\ lastRealAt' = IF a.stationName \in DOMAIN lastRealAt
                        THEN [lastRealAt EXCEPT ![a.stationName] = now]
                        ELSE lastRealAt
       /\ attempt' = [attempt EXCEPT ![caller] = IdleAttempt]
       /\ Resume(caller)

\* lines 1273-1275: all gates passed
AttemptSend(caller, notifyEnabled, soc, d) ==
    LET a == attempt[caller]
    IN /\ out' = notifySubscribers(a.prefix, a.stationName, FALSE)
       /\ obs' = [kind |-> "sent", caller |-> caller, prefix |-> a.prefix,
                  stationName |-> a.stationName, freePorts |-> a.freePorts,
                  notifyEnabled |-> notifyEnabled, soc |-> soc,
                  distanceM |-> d]
       /\ notifyMetaByStation' =
              [notifyMetaByStation EXCEPT ![a.prefix].notified = TRUE,
                                          ![a.prefix].lastSent = now]
       /\ sentInPhase' =
              IF a.stationName \in DOMAIN sentInPhase
              THEN [sentInPhase EXCEPT ![a.stationName] =
                      IF @ = 0 THEN 1 ELSE 2]
              ELSE sentInPhase
       /\ UNCHANGED freeSeen
       /\ lastRealAt' = IF a.stationName \in DOMAIN lastRealAt
                        THEN [lastRealAt EXCEPT ![a.stationName] = now]
                        ELSE lastRealAt
       /\ attempt' = [attempt EXCEPT ![caller] = IdleAttempt]
       /\ Resume(caller)

\* an early return of attemptNotifyForStation after a state read
AttemptDecline(caller, kind, notifyEnabled, soc, d) ==
    /\ out' = <<>>
    /\ obs' = [kind |-> kind, caller |-> caller,
               prefix |-> attempt[caller].prefix,
               stationName |-> attempt[caller].stationName,
               freePorts |-> attempt[caller].freePorts,
               notifyEnabled |-> notifyEnabled, soc |-> soc, distanceM |-> d]
    /\ attempt' = [attempt EXCEPT ![caller] = IdleAttempt]
    /\ UNCHANGED <<notifyMetaByStation, sentInPhase, freeSeen, lastRealAt>>
    /\ Resume(caller)

\* lines 1257-1264: the notifyOnAvailable read has returned; relevance, then
\* passesNotifyFilters up to its distance.m read
AttemptReadNotify(caller) ==
    LET a == attempt[caller]
        notifyEnabled == a.prefix \in DOMAIN states
                         /\ states[a.prefix].notifyOnAvailable
        hasSubs == stationHasNotifyTarget(a.prefix, a.stationName)
    IN /\ a.pc = "readNotify"
       /\ io' = NoIo
       /\ UNCHANGED <<stationPrefixByName, pollInterval, lifecycle, fan, norm,
                   overlap, config, now, carSoc, states, stationPrefixes,
                      stationInfoByPrefix, cycleStart>>
       /\ IF ~notifyEnabled /\ ~hasSubs
          THEN AttemptDecline(caller, "irrelevant", FALSE, Undefined,
                              Undefined)
          ELSE IF IsFinite(notifyMaxDistanceM)
          THEN /\ attempt' = [attempt EXCEPT ![caller] =
                                [a EXCEPT !.pc = "readDistance",
                                          !.notifyEnabled = notifyEnabled,
                                          !.hasSubs = hasSubs,
                                          !.soc = carSoc]]
               /\ out' = <<>> /\ obs' = NoObs
               /\ UNCHANGED <<notifyMetaByStation, sentInPhase, freeSeen, lastRealAt,
                              poll, car, lastFreePortsByStation>>
          ELSE IF SocOk(carSoc)
          THEN AttemptSend(caller, notifyEnabled, carSoc, Undefined)
          ELSE AttemptDecline(caller, "filtered", notifyEnabled, carSoc,
                              Undefined)

\* lines 1169-1181, 1264-1275: the distance.m read has returned
AttemptReadDistance(caller) ==
    LET a == attempt[caller]
        d == ReadState(a.prefix, "distanceM")
    IN /\ a.pc = "readDistance"
       /\ io' = NoIo
       /\ UNCHANGED <<stationPrefixByName, pollInterval, lifecycle, fan, norm,
                   overlap, config, now, carSoc, states, stationPrefixes,
                      stationInfoByPrefix, cycleStart>>
       /\ IF SocOk(a.soc) /\ DistanceOk(d)
          THEN AttemptSend(caller, a.notifyEnabled, a.soc, d)
          ELSE AttemptDecline(caller, "filtered", a.notifyEnabled, a.soc, d)

(***************************************************************************)
(* updateAllStations                                                       *)
(***************************************************************************)
\* ensureStationObjects: objects are created if missing; name, city, the
\* device ids and enabled are written on every call; notifyOnAvailable is
\* written from the configuration only when it has no value yet
ensureStationObjects(store, prefix, st, cityName) ==
    IF prefix \in DOMAIN store
    THEN [store EXCEPT ![prefix].name = st.name,
                       ![prefix].city = cityName,
                       ![prefix].deviceId1 = st.deviceId1,
                       ![prefix].deviceId2 = st.deviceId2,
                       ![prefix].enabled = st.enabled]
    ELSE store @@ (prefix :> [name |-> st.name,
                              city |-> cityName,
                              deviceId1 |-> st.deviceId1,
                              deviceId2 |-> st.deviceId2,
                              enabled |-> st.enabled,
                              freePorts |-> Undefined,
                              portCount |-> Undefined,
                              statusDerived |-> "",
                              statusLc |-> Undefined,
                              statusAgeMin |-> Undefined,
                              lastUpdate |-> Undefined,
                              notifyOnAvailable |-> st.notifyOnAvailable,
                              distanceM |-> Undefined,
                              ports |-> <<>>])

\* variant that writes whatever the state holds
updateStateAlways(cur, none, val) == TRUE

\* lines 551-559: whether updateStateIfChanged calls setStateAsync; cur is
\* what the state holds, none what it holds while it has no value
updateStateIfChanged(cur, none, val) == cur = none \/ cur # val

\* port.status || 'unknown'
OrUnknown(status) == IF status # "" THEN status ELSE "unknown"

\* lines 1443-1460: the port states after the loop over the ports; the port
\* at position i is outlet i, the states of an outlet that is no longer
\* reported stay as they are
writePorts(stored, ports, t) ==
    [i \in 1..(IF Len(stored) > Len(ports) THEN Len(stored) ELSE Len(ports)) |->
        IF i <= Len(ports)
        THEN [status |-> OrUnknown(ports[i].status),
              statusV2 |-> OrUnknown(ports[i].statusV2),
              lastUpdate |-> t]
        ELSE stored[i]]

\* the port states that loop writes through updateStateIfChanged
portWrites(stored, ports) ==
    {w \in (1..Len(ports)) \X {"status", "statusV2"} :
        updateStateIfChanged(IF w[1] <= Len(stored) THEN stored[w[1]][w[2]] ELSE "",
                             "", OrUnknown(ports[w[1]][w[2]]))}

\* lines 1401-1460: the state store after the objects of one station are
\* ensured and its values written at time t, and the states written through
\* updateStateIfChanged (outlet 0 stands for the station itself)
stationStep(store, prefix, st, cityName, dist, ports, t) ==
    LET ensured == ensureStationObjects(store, prefix, st, cityName)
        cur == ensured[prefix]
        portCount == IF ~st.enabled THEN 0
                     ELSE IF st.deviceId2 # <<>> THEN 2 ELSE Len(ports)
        freePorts == IF ~st.enabled THEN 0 ELSE CountFree(ports)
        derived == IF ~st.enabled THEN "deaktiviert"
                   ELSE deriveStationStatusFromPorts(ports)
        lc == IF cur.statusDerived # derived THEN t ELSE cur.statusLc
        ageMin == IF t > lc THEN t - lc ELSE 0
        stationWrites ==
            {w \in {0} \X {"distance.m", "portCount", "freePorts",
                            "statusDerived", "statusAgeMin"} :
               \/ /\ w[2] = "distance.m" /\ dist # Undefined
                  /\ updateStateIfChanged(cur.distanceM, Undefined, dist)
               \/ /\ w[2] = "portCount"
                  /\ updateStateIfChanged(cur.portCount, Undefined, portCount)
               \/ /\ w[2] = "freePorts"
                  /\ updateStateIfChanged(cur.freePorts, Undefined, freePorts)
               \/ /\ w[2] = "statusDerived"
                  /\ updateStateIfChanged(cur.statusDerived, "", derived)
               \/ /\ w[2] = "statusAgeMin"
                  /\ updateStateIfChanged(cur.statusAgeMin, Undefined, ageMin)}
    IN [store |->
          [ensured EXCEPT
             ![prefix].distanceM = IF dist = Undefined THEN @ ELSE dist,
             ![prefix].portCount = portCount,
             ![prefix].freePorts = freePorts,
             ![prefix].statusDerived = derived,
             ![prefix].statusLc = lc,
             ![prefix].statusAgeMin = ageMin,
             ![prefix].lastUpdate = t,
             ![prefix].ports = IF st.enabled THEN writePorts(@, ports, t)
                               ELSE @],
        written |-> stationWrites
                    \cup (IF st.enabled THEN portWrites(cur.ports, ports)
                          ELSE {})]

\* extractGps + haversineKm: the first response that carries a position
GpsDistance(data1, data2) ==
    IF data1.ok /\ data1.distM # Undefined THEN data1.distM
    ELSE IF data2.ok /\ data2.distM # Undefined THEN data2.distM
    ELSE Undefined

\* updateAllStations is called (lines 1388-1389)
PollBegin ==
    /\ poll.pc = "idle"
    /\ poll' = [IdlePoll EXCEPT !.pc = "fetch", !.i = 1]
    /\ cycleStart' = lastFreePortsByStation
    /\ out' = <<>> /\ obs' = NoObs
    /\ io' = NoIo
    /\ UNCHANGED <<stationPrefixByName, fan, norm, overlap, config, now, carSoc,
                   states, lastFreePortsByStation, notifyMetaByStation,
                   stationPrefixes, stationInfoByPrefix, car, attempt,
                   sentInPhase, freeSeen, lastRealAt>>

\* the interval timer (or onReady) calls updateAllStations
PollStart ==
    /\ PollBegin
    /\ UNCHANGED <<pollInterval, lifecycle>>

\* the second fetch happens only for a station with a deviceId2
SecondFetchResults ==
    IF poll.pc = "fetch" /\ config.stations[poll.i].deviceId2 # <<>>
    THEN FetchResults ELSE {NullData}

\* lines 1391-1460: the fetches have returned; objects ensured, prefix
\* remembered, distance written, ports merged and counted, the previous
\* count read, the new count written to the state store
PollFetch(d1, d2) ==
    /\ poll.pc = "fetch"
    /\ LET st == config.stations[poll.i]
           data1 == d1
           data2 == IF st.deviceId2 # <<>> THEN d2 ELSE NullData
       IN \E city \in {pickCity(data1, data2)} :
          \E stationPrefix \in {StationPrefix(city, st)} :
          \E ports \in {buildLogicalPorts(data1, data2, st.deviceId2 # <<>>)} :
          \E step \in {stationStep(states, stationPrefix, st, city,
                                   GpsDistance(data1, data2), ports, now)} :
          LET portCount == IF st.deviceId2 # <<>> THEN 2 ELSE Len(ports)
           freePorts == CountFree(ports)
           derived == deriveStationStatusFromPorts(ports)
           seen == poll.currentPrefixes \cup {stationPrefix}
           fetched == <<st.deviceId1>> \o (IF st.deviceId2 # <<>>
                                           THEN <<st.deviceId2>> ELSE <<>>)
           failed == (IF ~data1.ok THEN {st.deviceId1} ELSE {})
                     \cup (IF st.deviceId2 # <<>> /\ ~data2.ok
                           THEN {st.deviceId2} ELSE {})
           fetchedIo == [NoIo EXCEPT !.kind = "station", !.i = poll.i,
                                     !.prefix = stationPrefix,
                                     !.fetched = fetched, !.failed = failed,
                                     !.lastUpdate = now,
                                     !.data1 = data1, !.data2 = data2,
                                     !.written = step.written]
       IN /\ stationPrefixes' =
                 IF \E k \in 1..Len(stationPrefixes) :
                        stationPrefixes[k] = stationPrefix
                 THEN stationPrefixes
                 ELSE Append(stationPrefixes, stationPrefix)
          /\ stationInfoByPrefix' =
                 (stationPrefix :> [city |-> city, name |-> st.name])
                 @@ stationInfoByPrefix
          /\ stationPrefixByName' =
                 (st.name :> stationPrefix) @@ stationPrefixByName
          /\ IF ~st.enabled
             THEN /\ states' = step.store
                  /\ io' = [fetchedIo EXCEPT !.statusDerived = "deaktiviert"]
                  /\ poll' = [IdlePoll EXCEPT
                                !.pc = IF poll.i < Len(config.stations)
                                       THEN "fetch" ELSE "cleanup",
                                !.i = poll.i + 1,
                                !.currentPrefixes = seen]
                  /\ UNCHANGED <<sentInPhase, freeSeen>>
             ELSE /\ states' = step.store
                  /\ io' = [fetchedIo EXCEPT !.ports = ports,
                                             !.portCount = portCount,
                                             !.freePorts = freePorts,
                                             !.statusDerived = derived]
                  /\ poll' = [poll EXCEPT
                                !.pc = "decide",
                                !.prefix = stationPrefix,
                                !.stationName = st.name,
                                !.freePorts = freePorts,
                                !.prevFree =
                                    IF stationPrefix \in DOMAIN lastFreePortsByStation
                                    THEN lastFreePortsByStation[stationPrefix]
                                    ELSE Undefined,
                                !.currentPrefixes = seen,
                                !.failed = failed]
                  /\ sentInPhase' =
                         IF freePorts = 0
                         THEN [sentInPhase EXCEPT ![st.name] = 0]
                         ELSE sentInPhase
                  /\ freeSeen' = [freeSeen EXCEPT ![st.name] = freePorts > 0]
    /\ out' = <<>> /\ obs' = NoObs
    /\ UNCHANGED <<pollInterval, lifecycle, fan, norm,
                   overlap, config, now, carSoc, lastFreePortsByStation,
                   notifyMetaByStation, car, attempt, cycleStart, lastRealAt>>

\* lines 1465-1483: reset of notified, the transition test, the attempt
PollDecide ==
    /\ poll.pc = "decide"
    /\ LET meta0 == getNotifyMeta(notifyMetaByStation, poll.prefix)
           meta == IF ~(poll.freePorts > 0)
                   THEN [meta0 EXCEPT ![poll.prefix].notified = FALSE]
                   ELSE meta0
       IN IF becameFree(poll.prevFree, poll.freePorts)
          THEN AttemptStart("poll", meta, poll.prefix, poll.stationName,
                            poll.freePorts)
          ELSE /\ notifyMetaByStation' = meta
               /\ out' = <<>> /\ obs' = NoObs
               /\ PollResume
               /\ UNCHANGED <<attempt, sentInPhase, freeSeen, lastRealAt>>
    /\ io' = NoIo
    /\ UNCHANGED <<stationPrefixByName, pollInterval, lifecycle, fan, norm,
                   overlap, config, now, carSoc, states, stationPrefixes,
                   stationInfoByPrefix, cycleStart>>

\* cleanupObsoleteStations: station objects whose prefix was not produced in
\* this cycle are deleted
PollCleanup ==
    /\ poll.pc = "cleanup"
    /\ states' = [p \in (DOMAIN states \cap poll.currentPrefixes) |-> states[p]]
    /\ poll' = IdlePoll
    /\ cycleStart' = <<>>
    /\ out' = <<>> /\ obs' = NoObs
    /\ io' = NoIo
    /\ UNCHANGED <<stationPrefixByName, pollInterval, lifecycle, fan, norm,
                   overlap, config, now, carSoc, lastFreePortsByStation,
                   notifyMetaByStation, stationPrefixes, stationInfoByPrefix,
                   car, attempt, sentInPhase, freeSeen, lastRealAt>>

(***************************************************************************)
(* updateCarSoc / handleCarContextChange                                   *)
(***************************************************************************)
\* onStateChange for the car-SoC state: updateCarSoc up to its call of
\* handleCarContextChange('socChange')
CarSocChange(soc) ==
    /\ car.pc = "idle"
    /\ IF IsFinite(soc)
       THEN /\ carSoc' = soc
            /\ car' = [IdleCar EXCEPT !.pc = "visit", !.i = 1]
       ELSE UNCHANGED <<carSoc, car>>
    /\ out' = <<>> /\ obs' = NoObs
    /\ io' = NoIo
    /\ UNCHANGED <<stationPrefixByName, pollInterval, lifecycle, fan, norm,
                   overlap, config, now, states, lastFreePortsByStation,
                   notifyMetaByStation, stationPrefixes, stationInfoByPrefix,
                   poll, attempt, cycleStart, sentInPhase, freeSeen, lastRealAt>>

\* lines 1600-1631: one iteration of the loop over the remembered prefixes,
\* up to the first state read of the attempt: the freePorts read, the reset
\* when the station is not free, computeInRange on the distance.m read
CarVisit ==
    /\ car.pc = "visit"
    /\ IF car.i > Len(stationPrefixes)
       THEN /\ car' = IdleCar
            /\ out' = <<>> /\ obs' = NoObs
            /\ UNCHANGED <<notifyMetaByStation, poll, lastFreePortsByStation,
                           attempt, sentInPhase, freeSeen, lastRealAt>>
       ELSE LET prefix == stationPrefixes[car.i]
                freePorts == ReadState(prefix, "freePorts")
                d == ReadState(prefix, "distanceM")
                meta0 == getNotifyMeta(notifyMetaByStation, prefix)
                inRange == InRangeNow(meta0[prefix].inRange, d)
                meta == [meta0 EXCEPT ![prefix].inRange = inRange]
                stationName == IF prefix \in DOMAIN stationInfoByPrefix
                               THEN stationInfoByPrefix[prefix].name
                               ELSE prefix[2]
            IN IF ~IsFinite(freePorts) \/ freePorts <= 0
               THEN /\ notifyMetaByStation' =
                           [meta0 EXCEPT ![prefix].notified = FALSE]
                    /\ out' = <<>> /\ obs' = NoObs
                    /\ CarResume
                    /\ UNCHANGED <<attempt, sentInPhase, freeSeen, lastRealAt>>
               ELSE IF inRange
               THEN AttemptStart("car", meta, prefix, stationName, freePorts)
               ELSE /\ notifyMetaByStation' = meta
                    /\ out' = <<>> /\ obs' = NoObs
                    /\ CarResume
                    /\ UNCHANGED <<attempt, sentInPhase, freeSeen, lastRealAt>>
    /\ io' = NoIo
    /\ UNCHANGED <<stationPrefixByName, pollInterval, lifecycle, fan, norm,
                   overlap, config, now, carSoc, states, stationPrefixes,
                   stationInfoByPrefix, cycleStart>>

(***************************************************************************)
(* Environment                                                             *)
(***************************************************************************)
Tick ==
    /\ now + TickMin <= MaxNow
    /\ now' = now + TickMin
    /\ out' = <<>> /\ obs' = NoObs
    /\ io' = NoIo
    /\ UNCHANGED <<stationPrefixByName, pollInterval, lifecycle, fan, norm,
                   overlap, config, carSoc, states, lastFreePortsByStation,
                   notifyMetaByStation, stationPrefixes, stationInfoByPrefix,
                   poll, car, attempt, cycleStart, sentInPhase, freeSeen, lastRealAt>>

\* the user switches a station's notifyOnAvailable state
UserSetNotify(prefix, val) ==
    /\ prefix \in DOMAIN states
    /\ states[prefix].notifyOnAvailable # val
    /\ states' = [states EXCEPT ![prefix].notifyOnAvailable = val]
    /\ out' = <<>> /\ obs' = NoObs
    /\ io' = NoIo
    /\ UNCHANGED <<stationPrefixByName, pollInterval, lifecycle, fan, norm,
                   overlap, config, now, carSoc, lastFreePortsByStation,
                   notifyMetaByStation, stationPrefixes, stationInfoByPrefix,
                   poll, car, attempt, cycleStart, sentInPhase, freeSeen, lastRealAt>>

\* the adapter process is restarted: the constructor runs again, so all
\* in-memory records start empty; the state store keeps its values, and
\* initCarSoc reads the car's SoC back from its foreign state
Restart ==
    /\ lastFreePortsByStation' = <<>>
    /\ notifyMetaByStation' = <<>>
    /\ stationPrefixes' = <<>>
    /\ stationInfoByPrefix' = <<>>
    /\ poll' = IdlePoll
    /\ car' = IdleCar
    /\ attempt' = [c \in Callers |-> IdleAttempt]
    /\ cycleStart' = <<>>
    /\ out' = <<>> /\ obs' = NoObs
    /\ io' = NoIo
    /\ stationPrefixByName' = <<>>
    /\ pollInterval' = "unset"
    /\ lifecycle' = NotReady
    /\ UNCHANGED <<fan, norm, overlap, config, now, carSoc, states, sentInPhase,
                   freeSeen, lastRealAt>>

\* poll cycles and car-SoC handlers interleave at their state reads
Next ==
    \/ PollStart
    \/ \E d1 \in FetchResults : \E d2 \in SecondFetchResults : PollFetch(d1, d2)
    \/ PollDecide
    \/ PollCleanup
    \/ \E soc \in SocChoices : CarSocChange(soc)
    \/ CarVisit
    \/ \E caller \in Callers : AttemptReadNotify(caller)
    \/ \E caller \in Callers : AttemptReadDistance(caller)
    \/ \E prefix \in DOMAIN states, val \in BOOLEAN : UserSetNotify(prefix, val)

Spec == Init /\ [][Next]_vars

\* the same handlers run one after the other (a poll cycle starts only while
\* no car-SoC handler is running, and the reverse), and time passes
PollStep ==
    \/ PollStart
    \/ \E d1 \in FetchResults : \E d2 \in SecondFetchResults : PollFetch(d1, d2)
    \/ PollDecide
    \/ PollCleanup
    \/ AttemptReadNotify("poll")
    \/ AttemptReadDistance("poll")

CarStep ==
    \/ \E soc \in SocChoices : CarSocChange(soc)
    \/ CarVisit
    \/ AttemptReadNotify("car")
    \/ AttemptReadDistance("car")

NextSerial ==
    \/ car.pc = "idle" /\ PollStep
    \/ poll.pc = "idle" /\ CarStep
    \/ Tick
    \/ \E prefix \in DOMAIN states, val \in BOOLEAN : UserSetNotify(prefix, val)

SpecSerial == Init /\ [][NextSerial]_vars

\* handlers one after the other, with restarts of the adapter process
NextRestart ==
    \/ car.pc = "idle" /\ PollStep
    \/ poll.pc = "idle" /\ CarStep
    \/ Restart

SpecRestart == Init /\ [][NextRestart]_vars

(***************************************************************************)
(* The port normalizer on its own: one station, with or without a second   *)
(* device id; each step merges one pair of API responses and records the   *)
(* outcome in norm.                                                        *)
(***************************************************************************)
\* longest port list of a response the normalizer is applied to
NormMaxPorts == 2

StationDual == Station(NameAb, <<"7">>, <<"8">>, TRUE, TRUE)

NormPortChoices ==
    { [status |-> "", statusV2 |-> "AVAILABLE"],
      [status |-> "charging", statusV2 |-> ""],
      [status |-> "available", statusV2 |-> "unavailable"],
      [status |-> "reserved", statusV2 |-> ""],
      [status |-> "", statusV2 |-> ""] }

NormResponses ==
    {NullData} \cup
    [ok : {TRUE}, city : {CityUlm},
     ports : SeqsUpTo(NormPortChoices, NormMaxPorts), distM : {Undefined}]

InitNormalizer ==
    /\ config \in {Config(<<st>>, <<>>, Undefined, Undefined, Undefined) :
                      st \in {StationOn, StationDual}}
    /\ now = 0
    /\ carSoc = Undefined
    /\ states = <<>>
    /\ lastFreePortsByStation = <<>>
    /\ notifyMetaByStation = <<>>
    /\ stationPrefixes = <<>>
    /\ stationInfoByPrefix = <<>>
    /\ poll = IdlePoll
    /\ car = IdleCar
    /\ attempt = [c \in Callers |-> IdleAttempt]
    /\ out = <<>>
    /\ obs = NoObs
    /\ cycleStart = <<>>
    /\ sentInPhase = <<>>
    /\ freeSeen = <<>>
    /\ lastRealAt = <<>>
    /\ fan = NoFan
    /\ norm = NoNorm
    /\ io = NoIo
    /\ overlap = NoOverlap
    /\ stationPrefixByName = <<>>
    /\ pollInterval = "unset"
    /\ lifecycle = NotReady

\* updateAllStations for the configured station, from the two fetches to
\* the derived values; the second device is fetched only if there is one
MergeResponses(d1, d2) ==
    LET st == config.stations[1]
        hasSecondId == st.deviceId2 # <<>>
        data1 == d1
        data2 == IF hasSecondId THEN d2 ELSE NullData
        ports == buildLogicalPorts(data1, data2, hasSecondId)
    IN /\ norm' = [hasSecondId |-> hasSecondId, data1 |-> data1,
                   data2 |-> data2, ports |-> ports,
                   portCount |-> IF hasSecondId THEN 2 ELSE Len(ports),
                   freePorts |-> CountFree(ports),
                   derived |-> deriveStationStatusFromPorts(ports)]
       /\ UNCHANGED <<stationPrefixByName, pollInterval, lifecycle, io, overlap,
                      fan, config, now, carSoc, states,
                      lastFreePortsByStation, notifyMetaByStation,
                      stationPrefixes, stationInfoByPrefix, poll, car, attempt,
                      out, obs, cycleStart, sentInPhase, freeSeen, lastRealAt>>

NextNormalizer == \E d1 \in NormResponses, d2 \in NormResponses : MergeResponses(d1, d2)

SpecNormalizer == InitNormalizer /\ [][NextNormalizer]_vars

(***************************************************************************)
(* Poll cycles on their own, over station lists with a second device id,   *)
(* a disabled station and more than one station.                           *)
(***************************************************************************)
StationDisabled == Station(<<"C">>, <<"9">>, <<>>, FALSE, TRUE)

CycleConfigs ==
    { Config(<<StationDual>>, <<>>, NaN, NaN, 0),
      Config(<<StationDisabled, StationOn>>, <<>>, NaN, NaN, 0),
      Config(<<StationOn, StationDisabled>>, <<>>, NaN, Undefined, 0) }

InitCycle ==
    /\ config \in CycleConfigs
    /\ now = 1
    /\ carSoc = Undefined
    /\ states = <<>>
    /\ lastFreePortsByStation = <<>>
    /\ notifyMetaByStation = <<>>
    /\ stationPrefixes = <<>>
    /\ stationInfoByPrefix = <<>>
    /\ poll = IdlePoll
    /\ car = IdleCar
    /\ attempt = [c \in Callers |-> IdleAttempt]
    /\ out = <<>>
    /\ obs = NoObs
    /\ cycleStart = <<>>
    /\ sentInPhase = [n \in StationNames |-> 0]
    /\ freeSeen = [n \in StationNames |-> FALSE]
    /\ lastRealAt = [n \in StationNames |-> 0]
    /\ fan = NoFan
    /\ norm = NoNorm
    /\ io = NoIo
    /\ overlap = NoOverlap
    /\ stationPrefixByName = <<>>
    /\ pollInterval = "unset"
    /\ lifecycle = NotReady

NextCycle == PollStep

SpecCycle == InitCycle /\ [][NextCycle]_vars

\* what a request ends with, as far as the course of the cycle depends on it:
\* no data (an error, or axios gave up after its timeout of 12000 ms), or a
\* response with no port, a free port or a port in use
FetchOutcomes == {d \in FetchResults : d.distM = Undefined}

FetchSettles ==
    \E d1 \in FetchOutcomes :
        \E d2 \in SecondFetchResults \cap FetchOutcomes : PollFetch(d1, d2)

NextCycleLive ==
    \/ PollStart
    \/ FetchSettles
    \/ PollDecide
    \/ PollCleanup
    \/ AttemptReadNotify("poll")
    \/ AttemptReadDistance("poll")

\* every await of the cycle is on a promise that settles (the request as
\* above, and the state store answers); the continuation then runs
SpecCycleLive == InitCycle /\ [][NextCycleLive]_vars /\ WF_vars(NextCycleLive)

(***************************************************************************)
(* Poll cycles in which a state-store call can fail                        *)
(***************************************************************************)
\* a state-store call made for the station being processed rejects (here the
\* first one, in ensureCityChannel): updateAllStations has no handler
\* around its loop body, so the rejection ends the call; the interval
\* timer's catch logs it
PollStoreError ==
    /\ poll.pc = "fetch"
    /\ poll' = IdlePoll
    /\ cycleStart' = <<>>
    /\ out' = <<>> /\ obs' = NoObs
    /\ io' = [NoIo EXCEPT !.kind = "storeError", !.i = poll.i]
    /\ UNCHANGED <<stationPrefixByName, pollInterval, lifecycle, fan, norm,
                   overlap, config, now, carSoc, states,
                   lastFreePortsByStation, notifyMetaByStation,
                   stationPrefixes, stationInfoByPrefix, car, attempt,
                   sentInPhase, freeSeen, lastRealAt>>

NextStoreFault ==
    \/ PollStep
    \/ PollStoreError

SpecStoreFault == InitCycle /\ [][NextStoreFault]_vars

(***************************************************************************)
(* Poll cycles over stations with similar names                            *)
(***************************************************************************)
\* a second station whose name differs from 'A b' in case and punctuation
StationLike == Station(<<"a", "-", "B">>, <<"9">>, <<>>, TRUE, TRUE)

KeyConfigs ==
    { Config(<<StationOn, StationLike>>, <<>>, NaN, NaN, 0),
      Config(<<StationOn, StationDisabled>>, <<>>, NaN, Undefined, 0) }

InitKeys ==
    /\ config \in KeyConfigs
    /\ now = 1
    /\ carSoc = Undefined
    /\ states = <<>>
    /\ lastFreePortsByStation = <<>>
    /\ notifyMetaByStation = <<>>
    /\ stationPrefixes = <<>>
    /\ stationInfoByPrefix = <<>>
    /\ poll = IdlePoll
    /\ car = IdleCar
    /\ attempt = [c \in Callers |-> IdleAttempt]
    /\ out = <<>>
    /\ obs = NoObs
    /\ cycleStart = <<>>
    /\ sentInPhase = [n \in StationNames |-> 0]
    /\ freeSeen = [n \in StationNames |-> FALSE]
    /\ lastRealAt = [n \in StationNames |-> 0]
    /\ fan = NoFan
    /\ norm = NoNorm
    /\ io = NoIo
    /\ overlap = NoOverlap
    /\ stationPrefixByName = <<>>
    /\ pollInterval = "unset"
    /\ lifecycle = NotReady

NextKeys == PollStep

SpecKeys == InitKeys /\ [][NextKeys]_vars

(***************************************************************************)
(* Poll cycles with time passing between them                              *)
(***************************************************************************)
UpsertConfigs ==
    { Config(<<StationOn>>, <<>>, NaN, Undefined, 0),
      Config(<<StationDual>>, <<>>, NaN, NaN, 0),
      Config(<<StationDisabled>>, <<>>, NaN, NaN, 0) }

InitUpsert ==
    /\ config \in UpsertConfigs
    /\ now = 1
    /\ carSoc = Undefined
    /\ states = <<>>
    /\ lastFreePortsByStation = <<>>
    /\ notifyMetaByStation = <<>>
    /\ stationPrefixes = <<>>
    /\ stationInfoByPrefix = <<>>
    /\ poll = IdlePoll
    /\ car = IdleCar
    /\ attempt = [c \in Callers |-> IdleAttempt]
    /\ out = <<>>
    /\ obs = NoObs
    /\ cycleStart = <<>>
    /\ sentInPhase = [n \in StationNames |-> 0]
    /\ freeSeen = [n \in StationNames |-> FALSE]
    /\ lastRealAt = [n \in StationNames |-> 0]
    /\ fan = NoFan
    /\ norm = NoNorm
    /\ io = NoIo
    /\ overlap = NoOverlap
    /\ stationPrefixByName = <<>>
    /\ pollInterval = "unset"
    /\ lifecycle = NotReady

NextUpsert ==
    \/ PollStep
    \/ Tick

SpecUpsert == InitUpsert /\ [][NextUpsert]_vars

(***************************************************************************)
(* onReady, the interval timer and onUnload                                *)
(***************************************************************************)
\* onReady up to its loop over the stations (lines 2024-2083)
ReadyBegin ==
    /\ lifecycle.onReady = "start"
    /\ lifecycle' = [lifecycle EXCEPT !.onReady = "tree", !.i = 1]
    /\ out' = <<>> /\ obs' = NoObs
    /\ io' = NoIo
    /\ UNCHANGED <<stationPrefixByName, pollInterval, fan, norm, overlap, config,
                   now, carSoc, states, lastFreePortsByStation,
                   notifyMetaByStation, stationPrefixes, stationInfoByPrefix,
                   poll, car, attempt, cycleStart, sentInPhase, freeSeen,
                   lastRealAt>>

\* lines 2084-2095: one iteration of onReady's loop: the station is fetched,
\* its prefix remembered by name, its objects ensured
ReadyEnsure(d1, d2) ==
    /\ lifecycle.onReady = "tree"
    /\ lifecycle.i <= Len(config.stations)
    /\ LET st == config.stations[lifecycle.i]
           data2 == IF st.deviceId2 # <<>> THEN d2 ELSE NullData
           city == pickCity(d1, data2)
           stationPrefix == StationPrefix(city, st)
       IN /\ stationPrefixByName' =
                 (st.name :> stationPrefix) @@ stationPrefixByName
          /\ states' = ensureStationObjects(states, stationPrefix, st, city)
    /\ lifecycle' = [lifecycle EXCEPT !.i = @ + 1]
    /\ out' = <<>> /\ obs' = NoObs
    /\ io' = NoIo
    /\ UNCHANGED <<pollInterval, fan, norm, overlap, config, now, carSoc,
                   lastFreePortsByStation, notifyMetaByStation, stationPrefixes,
                   stationInfoByPrefix, poll, car, attempt, cycleStart,
                   sentInPhase, freeSeen, lastRealAt>>

\* line 2098: onReady calls updateAllStations and waits for it
ReadyFirstCycle ==
    /\ lifecycle.onReady = "tree"
    /\ lifecycle.i > Len(config.stations)
    /\ PollBegin
    /\ lifecycle' = [lifecycle EXCEPT !.onReady = "first"]
    /\ UNCHANGED pollInterval

\* lines 2100-2105: the first cycle has returned; onReady creates the timer
ReadySetInterval ==
    /\ lifecycle.onReady = "first"
    /\ poll.pc = "idle"
    /\ pollInterval' = "running"
    /\ lifecycle' = [lifecycle EXCEPT !.onReady = "done"]
    /\ out' = <<>> /\ obs' = NoObs
    /\ io' = NoIo
    /\ UNCHANGED <<stationPrefixByName, fan, norm, overlap, config, now, carSoc,
                   states, lastFreePortsByStation, notifyMetaByStation,
                   stationPrefixes, stationInfoByPrefix, poll, car, attempt,
                   cycleStart, sentInPhase, freeSeen, lastRealAt>>

\* lines 2103-2105: the timer fires and its callback calls updateAllStations
TimerFires ==
    /\ pollInterval = "running"
    /\ PollBegin
    /\ UNCHANGED <<pollInterval, lifecycle>>

\* lines 2364-2371: onUnload clears the timer if this.pollInterval is set;
\* calls that are waiting on a promise go on when it settles
OnUnload ==
    /\ ~lifecycle.unloaded
    /\ pollInterval' = IF pollInterval = "running" THEN "cleared"
                       ELSE pollInterval
    /\ lifecycle' = [lifecycle EXCEPT !.unloaded = TRUE]
    /\ out' = <<>> /\ obs' = NoObs
    /\ io' = NoIo
    /\ UNCHANGED <<stationPrefixByName, fan, norm, overlap, config, now, carSoc,
                   states, lastFreePortsByStation, notifyMetaByStation,
                   stationPrefixes, stationInfoByPrefix, poll, car, attempt,
                   cycleStart, sentInPhase, freeSeen, lastRealAt>>

LifecycleConfigs ==
    { Config(<<StationOn>>, <<>>, NaN, NaN, 0),
      Config(<<StationOn, StationDisabled>>, <<>>, NaN, Undefined, 0) }

InitLifecycle ==
    /\ config \in LifecycleConfigs
    /\ now = 1
    /\ carSoc = Undefined
    /\ states = <<>>
    /\ lastFreePortsByStation = <<>>
    /\ notifyMetaByStation = <<>>
    /\ stationPrefixes = <<>>
    /\ stationInfoByPrefix = <<>>
    /\ poll = IdlePoll
    /\ car = IdleCar
    /\ attempt = [c \in Callers |-> IdleAttempt]
    /\ out = <<>>
    /\ obs = NoObs
    /\ cycleStart = <<>>
    /\ sentInPhase = [n \in StationNames |-> 0]
    /\ freeSeen = [n \in StationNames |-> FALSE]
    /\ lastRealAt = [n \in StationNames |-> 0]
    /\ fan = NoFan
    /\ norm = NoNorm
    /\ io = NoIo
    /\ overlap = NoOverlap
    /\ stationPrefixByName = <<>>
    /\ pollInterval = "unset"
    /\ lifecycle = NotReady

NextLifecycle ==
    \/ ReadyBegin
    \/ \E d1 \in FetchOutcomes, d2 \in FetchOutcomes : ReadyEnsure(d1, d2)
    \/ ReadyFirstCycle
    \/ ReadySetInterval
    \/ TimerFires
    \/ OnUnload
    \/ \E d1 \in FetchResults : \E d2 \in SecondFetchResults : PollFetch(d1, d2)
    \/ PollDecide
    \/ PollCleanup
    \/ AttemptReadNotify("poll")
    \/ AttemptReadDistance("poll")

SpecLifecycle == InitLifecycle /\ [][NextLifecycle]_vars

(***************************************************************************)
(* Poll cycles that overlap                                                *)
(***************************************************************************)
\* setInterval calls updateAllStations whether or not the previous call has
\* returned (lines 2103-2105), so two calls can be in progress; at an await
\* of one the event loop may go on with the other.  poll and attempt["poll"]
\* are the call the event loop runs next, overlap is the other one.
SwitchCycle ==
    /\ poll.pc # "idle" \/ overlap.poll.pc # "idle"
    /\ poll' = overlap.poll
    /\ attempt' = [attempt EXCEPT !["poll"] = overlap.attempt]
    /\ overlap' = [poll |-> poll, attempt |-> attempt["poll"]]
    /\ out' = <<>> /\ obs' = NoObs
    /\ io' = NoIo
    /\ UNCHANGED <<stationPrefixByName, pollInterval, lifecycle, fan, norm,
                   config, now, carSoc, states,
                   lastFreePortsByStation, notifyMetaByStation, stationPrefixes,
                   stationInfoByPrefix, car, cycleStart, sentInPhase, freeSeen,
                   lastRealAt>>

OverlapConfigs ==
    { Config(<<StationOn>>, <<>>, NaN, NaN, Undefined),
      Config(<<StationOn>>, <<>>, NaN, Undefined, 0) }

InitOverlap ==
    /\ config \in OverlapConfigs
    /\ now = 1
    /\ carSoc = Undefined
    /\ states = <<>>
    /\ lastFreePortsByStation = <<>>
    /\ notifyMetaByStation = <<>>
    /\ stationPrefixes = <<>>
    /\ stationInfoByPrefix = <<>>
    /\ poll = IdlePoll
    /\ car = IdleCar
    /\ attempt = [c \in Callers |-> IdleAttempt]
    /\ out = <<>>
    /\ obs = NoObs
    /\ cycleStart = <<>>
    /\ sentInPhase = [n \in StationNames |-> 0]
    /\ freeSeen = [n \in StationNames |-> FALSE]
    /\ lastRealAt = [n \in StationNames |-> 0]
    /\ fan = NoFan
    /\ norm = NoNorm
    /\ io = NoIo
    /\ overlap = NoOverlap
    /\ stationPrefixByName = <<>>
    /\ pollInterval = "unset"
    /\ lifecycle = NotReady

NextOverlap == \/ PollStep \/ SwitchCycle

SpecOverlap == InitOverlap /\ [][NextOverlap]_vars

(***************************************************************************)
(* Message fan-out on its own: the channel list, the subscriptions and the *)
(* raw shape of both settings vary; each step is one complete sending      *)
(* operation, recorded in fan.                                             *)
(***************************************************************************)
NoInstanceChannel ==
    [instance |-> <<>>, user |-> <<>>, label |-> <<"b">>, enabled |-> TRUE]

\* three active channels, one per supported family, among skipped ones
ChannelList3 ==
    << Channel("telegram.", <<>>, <<"A", "b">>, TRUE),
       NoInstanceChannel,
       Channel("whatsapp-cmb.", <<" ", "4", "9">>, <<" ", "b">>, TRUE),
       Channel("email.", <<>>, <<"b">>, TRUE),
       Channel("pushover.", <<"p">>, <<>>, TRUE),
       Channel("telegram.", <<"a">>, <<"b">>, FALSE) >>

SubNoRecipient == Subscription(ALL, <<>>, TRUE)

\* the raw shapes of the two settings: at most one of them is not an array
KindPairs ==
    {<<ck, sk>> \in ConfigKinds \X ConfigKinds : ck = "array" \/ sk = "array"}

FanoutConfigs ==
    { [Config(<<StationOn>>, subs, Undefined, Undefined, Undefined)
         EXCEPT !.channels = chans, !.channelsKind = k[1],
                !.subscriptionsKind = k[2]] :
        chans \in {ChannelList, ChannelList3},
        subs \in { <<>>, <<SubKeyUlm, SubAll>>, <<SubName>>,
                   <<SubDisabled, SubEmpty>>, <<SubNoRecipient>>,
                   <<SubNoRecipient, SubName>> },
        k \in KindPairs }

InitFanout ==
    /\ config \in FanoutConfigs
    /\ now = 0
    /\ carSoc = Undefined
    /\ states = <<>>
    /\ lastFreePortsByStation = <<>>
    /\ notifyMetaByStation = <<>>
    /\ stationPrefixes = <<>>
    /\ stationInfoByPrefix = <<>>
    /\ poll = IdlePoll
    /\ car = IdleCar
    /\ attempt = [c \in Callers |-> IdleAttempt]
    /\ out = <<>>
    /\ obs = NoObs
    /\ cycleStart = <<>>
    /\ sentInPhase = <<>>
    /\ freeSeen = <<>>
    /\ lastRealAt = <<>>
    /\ fan = NoFan
    /\ norm = NoNorm
    /\ io = NoIo
    /\ overlap = NoOverlap
    /\ stationPrefixByName = <<>>
    /\ pollInterval = "unset"
    /\ lifecycle = NotReady

NotFan ==
    <<stationPrefixByName, pollInterval, lifecycle, io, overlap, norm, config, now, carSoc, states, lastFreePortsByStation,
      notifyMetaByStation, stationPrefixes, stationInfoByPrefix, poll, car,
      attempt, out, obs, cycleStart, sentInPhase, freeSeen, lastRealAt>>

SupportedInstances == {<<f, "0">> : f \in SupportedFamilies}

\* onStateChange, tools.testNotify: sendMessageToChannels with an empty
\* context; throws is the set of instances whose sendTo throws
ToolsTestNotify(throws) ==
    LET channels == getActiveChannels(<<>>)
        calls == sendLoop(channels, TestText, EmptyCtx, throws)
    IN /\ fan' = [NoFan EXCEPT !.op = "testNotify", !.selected = channels,
                     !.sent = calls, !.ok = CountOk(calls),
                     !.failed = CountFailed(calls), !.throws = throws,
                     !.text = TestText]
       /\ UNCHANGED NotFan

\* the channels the sendAvailableNotification calls of one notifySubscribers
\* call select, in order
notifySelected(stationPrefixRel, stationName) ==
    LET calls == notifyCalls(stationPrefixRel, stationName, FALSE, EmptyCtx, {})
    IN [i \in 1..Len(calls) |-> calls[i].channel]

\* one call of notifySubscribers: a real notification (isTest = FALSE) or a
\* station test notification
NotifySubscribers(prefix, city, name, freePorts, portCount, isTest, throws) ==
    LET ctx == Ctx(Str(name), Str(city), freePorts, portCount)
        calls == notifyCalls(prefix, name, isTest, ctx, throws)
    IN /\ fan' = [NoFan EXCEPT !.op = "notifySubscribers",
                     !.selected = notifySelected(prefix, name),
                     !.sent = calls, !.ok = CountOk(calls),
                     !.failed = CountFailed(calls), !.throws = throws,
                     !.text = AvailableText(isTest),
                     !.stationPrefixRel = prefix, !.stationName = name,
                     !.returned = notifyResult(prefix, name, isTest, ctx,
                                               throws)]
       /\ UNCHANGED NotFan

\* onMessage, command testChannel: the message names the instance, the user
\* and the label; threw tells whether sendTo throws
TestChannel(rawInstance, rawUser, rawLabel, threw) ==
    LET instance == rawInstance
        user == trim(rawUser)
        label == trim(rawLabel)
        rejected == instance = <<>> \/ (instance[1] = "open-wa." /\ user = <<>>)
        call == [instance |-> instance,
                 channel |-> [instance |-> instance, user |-> user,
                              label |-> label],
                 payload |-> PruneUndefined(
                                FamilyPayload(instance, user, label, TestText)),
                 threw |-> threw]
    IN /\ fan' = [NoFan EXCEPT !.op = "testChannel",
                     !.sent = IF rejected THEN <<>> ELSE <<call>>,
                     !.throws = IF threw THEN {instance} ELSE {},
                     !.text = TestText, !.instance = instance, !.user = user]
       /\ UNCHANGED NotFan

FanInstances ==
    SupportedInstances \cup {<<>>, <<"open-wa.", "0">>, <<"email.", "0">>}

\* the sets of instances whose sendTo throws
ThrowSets ==
    { {}, {<<"telegram.", "0">>}, {<<"whatsapp-cmb.", "0">>},
      {<<"whatsapp-cmb.", "0">>, <<"pushover.", "0">>} }

\* the stations notifySubscribers is called for: <<prefix, name>>
NotifyStations ==
    { << <<makeSafeName(CityUlm), getStationKey(StationOn)>>, NameAb >>,
      << <<unbekannt, getStationKey(StationOn)>>, NameAb >>,
      << <<unbekannt, <<"c">> >>, <<"C">> >> }

\* <<isTest, freePorts>>: a station test may find no freePorts state
NotifyKinds ==
    { <<FALSE, <<"number", <<"1">>>> >>, <<TRUE, <<"number", <<"1">>>> >>,
      <<TRUE, JsUndefined>> }

\* <<user, label>> of a testChannel message
TestChannelFields == { << <<>>, <<>> >>, << <<" ", "4", "9">>, <<"b">> >> }

NextFanout ==
    \/ \E throws \in ThrowSets : ToolsTestNotify(throws)
    \/ \E st \in NotifyStations, k \in NotifyKinds, throws \in ThrowSets :
            NotifySubscribers(st[1], CityUlm, st[2], k[2], k[2], k[1], throws)
    \/ \E instance \in FanInstances, f \in TestChannelFields,
          threw \in BOOLEAN :
            TestChannel(instance, f[1], f[2], threw)

SpecFanout == InitFanout /\ [][NextFanout]_vars

(***************************************************************************)
(* Handlers whose notification reaches no channel                          *)
(***************************************************************************)
\* a subscription for all stations whose recipient is no channel's label
SubStranger == Subscription(ALL, <<"c">>, TRUE)

\* no channel configured; a matching subscription without recipient; a
\* recipient label that no active channel carries
SilentConfigs ==
    { [Config(<<StationOn>>, <<>>, NaN, NaN, Undefined) EXCEPT !.channels = <<>>],
      Config(<<StationOff>>, <<SubNoRecipient>>, NaN, Undefined, 0),
      Config(<<StationOff>>, <<SubStranger>>, Undefined, NaN, Undefined) }

InitSilent ==
    /\ config \in SilentConfigs
    /\ now = 1
    /\ carSoc = Undefined
    /\ states = <<>>
    /\ lastFreePortsByStation = <<>>
    /\ notifyMetaByStation = <<>>
    /\ stationPrefixes = <<>>
    /\ stationInfoByPrefix = <<>>
    /\ poll = IdlePoll
    /\ car = IdleCar
    /\ attempt = [c \in Callers |-> IdleAttempt]
    /\ out = <<>>
    /\ obs = NoObs
    /\ cycleStart = <<>>
    /\ sentInPhase = [n \in StationNames |-> 0]
    /\ freeSeen = [n \in StationNames |-> FALSE]
    /\ lastRealAt = [n \in StationNames |-> 0]
    /\ fan = NoFan
    /\ norm = NoNorm
    /\ io = NoIo
    /\ overlap = NoOverlap
    /\ stationPrefixByName = <<>>
    /\ pollInterval = "unset"
    /\ lifecycle = NotReady

SpecSilent == InitSilent /\ [][NextSerial]_vars

(***************************************************************************)
(* Test notifications                                                      *)
(***************************************************************************)
\* the characters of a state id, in the order of their UTF-16 code units
IdChars ==
    << ".", "0", "1", "2", "3", "4", "5", "6", "7", "8", "9", "_", "a", "b",
       "c", "d", "e", "f", "g", "h", "i", "j", "k", "l", "m", "n", "o", "p",
       "q", "r", "s", "t", "u", "v", "w", "x", "y", "z" >>

CharRank(c) == CHOOSE k \in 1..Len(IdChars) : IdChars[k] = c

\* a < b as Array.prototype.sort compares two strings
RECURSIVE StringBefore(_, _)
StringBefore(a, b) ==
    IF a = <<>> THEN b # <<>>
    ELSE IF b = <<>> THEN FALSE
    ELSE IF Head(a) = Head(b) THEN StringBefore(Tail(a), Tail(b))
    ELSE CharRank(Head(a)) < CharRank(Head(b))

\* .sort() of a set of station prefixes
RECURSIVE sortPrefixes(_)
sortPrefixes(S) ==
    IF S = {} THEN <<>>
    ELSE LET first == CHOOSE p \in S : \A q \in S \ {p} :
                          StringBefore(PrefixString(p), PrefixString(q))
         IN <<first>> \o sortPrefixes(S \ {first})

\* lines 727 and 732: the station name a test is sent with, the name state
\* or else the last part of the prefix
TestStationName(stationPrefixRel) ==
    IF stationPrefixRel \in DOMAIN states /\ states[stationPrefixRel].name # <<>>
    THEN states[stationPrefixRel].name
    ELSE stationPrefixRel[2]

\* variant that sends no test for a station marked as notified
sendTestNotifyUnlessNotified(stationPrefixRel) ==
    IF /\ stationPrefixRel \in DOMAIN notifyMetaByStation
       /\ notifyMetaByStation[stationPrefixRel].notified
    THEN <<>>
    ELSE notifySubscribers(stationPrefixRel, TestStationName(stationPrefixRel),
                           TRUE)

\* lines 726-738: the messages of one sendTestNotifyForPrefix call
sendTestNotifyForPrefix(stationPrefixRel) ==
    notifySubscribers(stationPrefixRel, TestStationName(stationPrefixRel), TRUE)

RECURSIVE sendTestNotifyForAll(_)
sendTestNotifyForAll(prefixes) ==
    IF prefixes = <<>> THEN <<>>
    ELSE sendTestNotifyForPrefix(Head(prefixes))
         \o sendTestNotifyForAll(Tail(prefixes))

\* what every test handler does with the state: the messages go out, the
\* button state the user set to true is false again
TestSent(caller, prefix, stationName, messages) ==
    /\ out' = messages
    /\ obs' = [NoObs EXCEPT !.kind = "test", !.caller = caller,
                            !.prefix = prefix, !.stationName = stationName]
    /\ io' = NoIo
    /\ UNCHANGED <<stationPrefixByName, pollInterval, lifecycle, fan, norm,
                   overlap, config, now, carSoc, states, lastFreePortsByStation,
                   notifyMetaByStation, stationPrefixes, stationInfoByPrefix,
                   poll, car, attempt, cycleStart, sentInPhase, freeSeen,
                   lastRealAt>>

\* onStateChange, lines 2168-2178: the user presses a station's testNotify
\* button
StationTestNotify(prefix) ==
    /\ prefix \in DOMAIN states
    /\ TestSent("testNotify", prefix, TestStationName(prefix),
                sendTestNotifyForPrefix(prefix))

\* onStateChange, lines 2148-2166: the user presses tools.testNotifyAll; one
\* test for every station whose notifyOnAvailable state is true
ToolsTestNotifyAll ==
    LET prefixes == sortPrefixes({p \in DOMAIN states :
                                     states[p].notifyOnAvailable})
    IN TestSent("testNotifyAll", <<>>, <<>>, sendTestNotifyForAll(prefixes))

\* onMessage, lines 2298-2322: the command testStation with a station name;
\* the prefix remembered for the name, else a station whose name state
\* holds it
TestStation(rawName) ==
    LET name == trim(rawName)
        found == IF name \in DOMAIN stationPrefixByName
                 THEN {stationPrefixByName[name]}
                 ELSE {p \in DOMAIN states : states[p].name = name}
    IN IF name = <<>> \/ found = {}
       THEN TestSent("testStation", <<>>, name, <<>>)
       ELSE \E prefix \in found :
               TestSent("testStation", prefix, TestStationName(prefix),
                        sendTestNotifyForPrefix(prefix))

\* the names a testStation command carries
TestNames == {<<>>, <<" ", "A", " ", "b">>, <<"C">>}

\* poll cycles and car-SoC handlers one after the other; a test handler
\* runs at any of their awaits
NextTests ==
    \/ car.pc = "idle" /\ PollStep
    \/ poll.pc = "idle" /\ CarStep
    \/ \E prefix \in DOMAIN states : StationTestNotify(prefix)
    \/ ToolsTestNotifyAll
    \/ \E rawName \in TestNames : TestStation(rawName)

SpecTests == Init /\ [][NextTests]_vars

(***************************************************************************)
(* Properties                                                              *)
(***************************************************************************)
\* the step in which updateAllStations runs a station's notify logic
PollDecides == poll.pc = "decide" /\ poll'.pc # "decide"

\* the transition record held 0 for the prefix when the cycle started
RecordedZero(prefix) ==
    prefix \in DOMAIN cycleStart /\ cycleStart[prefix] = 0

\* C1: the poll cycle calls the notification attempt for a station exactly
\* when the transition record holds a defined 0 for it and the newly computed
\* free-port count is above 0; a station without a record never fires.
C1_EdgeDetection ==
    [][PollDecides =>
         ((obs'.kind = "called" /\ obs'.caller = "poll")
            <=> (RecordedZero(poll.prefix) /\ poll.freePorts > 0))]_vars

C1_Witness ==
    /\ obs.kind = "called"
    /\ obs.caller = "poll"
    /\ RecordedZero(obs.prefix)
    /\ obs.freePorts > 0

C3_OneSendUnderInterleaving ==
    \A n \in StationNames : sentInPhase[n] < 2

\* C4: in one free phase every channel instance receives at most one real
\* message for the station, also when several enabled subscriptions that
\* match the station name the same recipient label.
C4_OncePerChannel ==
    /\ \A i, j \in DOMAIN out :
          (i # j /\ ~out[i].isTest /\ ~out[j].isTest
             /\ out[i].station = out[j].station)
            => out[i].instance # out[j].instance
    /\ \A n \in StationNames : sentInPhase[n] <= 1

\* C5 as stated: a real notification is sent only by the poll cycle in which
\* the became-free transition fired for the station.
C5_EdgeOnly ==
    obs.kind = "sent" =>
        /\ obs.caller = "poll"
        /\ RecordedZero(obs.prefix)
        /\ obs.freePorts > 0

\* C5: a real notification is sent either by the poll cycle in which the
\* became-free transition fired for the station, or by the car handler after
\* a SoC change for a station whose freePorts state was above 0 while the
\* car is within the maximum distance and its SoC is known.
C5_EdgeOrCarLevel ==
    obs.kind = "sent" =>
        \/ /\ obs.caller = "poll"
           /\ RecordedZero(obs.prefix)
           /\ obs.freePorts > 0
        \/ /\ obs.caller = "car"
           /\ obs.freePorts > 0
           /\ IsFinite(carSoc)
           /\ IsFinite(notifyMaxDistanceM)
           /\ IsFinite(obs.distanceM)
           /\ obs.distanceM <= notifyMaxDistanceM

\* the car handler sends while no poll cycle is running
C5_Witness ==
    /\ obs.kind = "sent"
    /\ obs.caller = "car"
    /\ poll.pc = "idle"
    /\ out # <<>>

\* a real message for station n is handed to a channel in this step
RealSent(n) ==
    \E i \in DOMAIN out : ~out[i].isTest /\ out[i].station = n

\* C6: with a cooldown of N minutes configured, a real notification for a
\* station is not sent less than N minutes after the previous one.
C6_Cooldown ==
    [][\A n \in StationNames :
         (RealSent(n)' /\ IsFinite(notifyCooldownMin) /\ notifyCooldownMin > 0
            /\ lastRealAt[n] # 0)
           => now' - lastRealAt[n] >= notifyCooldownMin]_vars

\* the settings as entered leave cooldown and both filters unconfigured, and
\* there are no subscriptions
NothingConfigured ==
    /\ config.notifySocBelow \in {Undefined, NaN}
    /\ config.notifyMaxDistanceM \in {Undefined, NaN}
    /\ config.notifyCooldownMin \in {Undefined, NaN, 0}
    /\ config.subscriptions = <<>>

\* cooldown and both filters are off as the adapter evaluates them, and there
\* are no subscriptions
FiltersOff ==
    /\ ~IsFinite(notifySocBelow)
    /\ ~IsFinite(notifyMaxDistanceM)
    /\ (IsFinite(notifyCooldownMin) => notifyCooldownMin = 0)
    /\ config.subscriptions = <<>>

\* msgs holds exactly one real message for the station on every enabled
\* channel of a supported family, and none on any other channel
OnePerActiveChannel(msgs, stationName) ==
    \A k \in DOMAIN config.channels :
        LET c == config.channels[k]
            sentTo == {i \in DOMAIN msgs : /\ msgs[i].instance = c.instance
                                           /\ ~msgs[i].isTest
                                           /\ msgs[i].station = stationName}
        IN Cardinality(sentTo) =
             IF c.enabled /\ c.instance[1] \in
                               {"telegram.", "whatsapp-cmb.", "pushover."}
             THEN 1 ELSE 0

\* the became-free transition starts the attempt, and the attempt that reads
\* notifyOnAvailable = true sends to every active channel
EdgeNotifiesAllChannels ==
    /\ (PollDecides /\ RecordedZero(poll.prefix) /\ poll.freePorts > 0)
         => attempt'["poll"].pc = "readNotify"
    /\ (/\ attempt["poll"].pc = "readNotify"
        /\ attempt'["poll"].pc # "readNotify"
        /\ attempt["poll"].prefix \in DOMAIN states
        /\ states[attempt["poll"].prefix].notifyOnAvailable)
         => /\ out' # <<>>
            /\ OnePerActiveChannel(out', attempt["poll"].stationName)

C8_FailClosed ==
    (/\ obs.kind \in {"sent", "filtered"}
     /\ \/ IsFinite(notifySocBelow) /\ ~IsFinite(obs.soc)
        \/ IsFinite(notifyMaxDistanceM) /\ ~IsFinite(obs.distanceM))
      => (obs.kind = "filtered" /\ out = <<>>)

\* an attempt blocked only because the distance is unknown
C8_Witness ==
    /\ obs.kind = "filtered"
    /\ IsFinite(notifyMaxDistanceM)
    /\ ~IsFinite(obs.distanceM)
    /\ IsFinite(notifySocBelow)
    /\ IsFinite(obs.soc)
    /\ obs.soc < notifySocBelow

\* C9: with both filters active a notification goes out exactly when the SoC
\* is strictly below the threshold and the distance is at most the maximum.
C9_Thresholds ==
    (/\ IsFinite(notifySocBelow)
     /\ IsFinite(notifyMaxDistanceM)
     /\ obs.kind \in {"sent", "filtered"})
      => (obs.kind = "sent"
            <=> (/\ IsFinite(obs.soc)
                 /\ obs.soc < notifySocBelow
                 /\ IsFinite(obs.distanceM)
                 /\ obs.distanceM <= notifyMaxDistanceM))

\* SoC equal to the threshold blocks although the distance, equal to the
\* maximum, passes
C9_Witness ==
    /\ obs.kind = "filtered"
    /\ IsFinite(notifySocBelow)
    /\ obs.soc = notifySocBelow
    /\ obs.distanceM = notifyMaxDistanceM

\* an enabled subscription targets the station by key, by name or by __ALL__
Targeted(prefix, stationName) ==
    \E i \in DOMAIN config.subscriptions :
        LET s == config.subscriptions[i]
            sel == trim(s.station)
        IN /\ s.enabled
           /\ \/ sel = ALL
              \/ sel = PrefixString(prefix)
              \/ /\ startsWith(sel, namePrefix)
                 /\ toLowerCase(trim(SubSeq(sel, Len(namePrefix) + 1, Len(sel))))
                      = toLowerCase(stationName)

\* C10: an attempt goes on to the filters only if notifyOnAvailable was true
\* when it was read or an enabled subscription targets the station, and it
\* stops before the filters only if neither holds.
C10_Relevance ==
    /\ obs.kind \in {"sent", "filtered"}
         => (obs.notifyEnabled \/ Targeted(obs.prefix, obs.stationName))
    /\ obs.kind = "irrelevant"
         => /\ ~(obs.prefix \in DOMAIN states
                   /\ states[obs.prefix].notifyOnAvailable)
            /\ ~Targeted(obs.prefix, obs.stationName)

\* a station with the toggle off is notified through a subscription
C10_Witness ==
    /\ obs.kind = "sent"
    /\ ~obs.notifyEnabled
    /\ Targeted(obs.prefix, obs.stationName)
    /\ out # <<>>

\* the notify meta of a prefix, as getNotifyMeta would return it
MetaOf(meta, prefix) ==
    IF prefix \in DOMAIN meta THEN meta[prefix] ELSE DefaultMeta

\* notified and lastSent of the prefix are the same before and after the step
MarksUnchanged(prefix) ==
    /\ MetaOf(notifyMetaByStation', prefix).notified
         = MetaOf(notifyMetaByStation, prefix).notified
    /\ MetaOf(notifyMetaByStation', prefix).lastSent
         = MetaOf(notifyMetaByStation, prefix).lastSent

\* the transition record changes at most by the poll cycle's own write for
\* the station it is working on
RecordUntouched(caller) ==
    IF caller = "poll"
    THEN \A p \in DOMAIN lastFreePortsByStation' :
            (p \in DOMAIN lastFreePortsByStation
               /\ lastFreePortsByStation'[p] = lastFreePortsByStation[p])
            \/ (p = poll.prefix
                  /\ lastFreePortsByStation'[p] = poll.freePorts)
    ELSE UNCHANGED lastFreePortsByStation

\* C11: an attempt with freePorts > 0 goes past its first two gates exactly
\* when notified is false and the cooldown has elapsed; it sets notified and
\* lastSent = now exactly when it sends; a declining attempt leaves notified,
\* lastSent and the transition record as they were and sends nothing.
C11_AttemptFrame ==
    [][/\ (obs'.kind = "called" /\ obs'.freePorts > 0)
            => /\ MarksUnchanged(obs'.prefix)
               /\ out' = <<>>
               /\ (attempt'[obs'.caller].pc = "readNotify")
                    <=> (/\ ~MetaOf(notifyMetaByStation, obs'.prefix).notified
                         /\ ~(/\ IsFinite(notifyCooldownMin)
                              /\ notifyCooldownMin > 0
                              /\ MetaOf(notifyMetaByStation,
                                        obs'.prefix).lastSent # 0
                              /\ now - MetaOf(notifyMetaByStation,
                                              obs'.prefix).lastSent
                                   < notifyCooldownMin))
       /\ obs'.kind \in {"irrelevant", "filtered"}
            => /\ MarksUnchanged(obs'.prefix)
               /\ out' = <<>>
               /\ RecordUntouched(obs'.caller)
       /\ obs'.kind = "sent"
            => /\ notifyMetaByStation'[obs'.prefix].notified
               /\ notifyMetaByStation'[obs'.prefix].lastSent = now
       /\ \A p \in DOMAIN notifyMetaByStation' :
            (\/ MetaOf(notifyMetaByStation', p).lastSent
                  # MetaOf(notifyMetaByStation, p).lastSent
             \/ (/\ MetaOf(notifyMetaByStation', p).notified
                 /\ ~MetaOf(notifyMetaByStation, p).notified))
              => (obs'.kind = "sent" /\ obs'.prefix = p)]_vars

\* an attempt declined by the cooldown alone: nothing marked, nothing sent
C11_Witness ==
    /\ obs.kind = "called"
    /\ obs.freePorts > 0
    /\ attempt[obs.caller].pc = "idle"
    /\ ~notifyMetaByStation[obs.prefix].notified
    /\ notifyMetaByStation[obs.prefix].lastSent # 0
    /\ out = <<>>

\* C12: every poll cycle that computes freePorts = 0 for an enabled station
\* leaves its notified flag false, and the flag goes from true to false only
\* in such a step of a poll cycle.
C12_ResetOnlyOnZeroPoll ==
    [][/\ (PollDecides /\ poll.freePorts = 0)
            => ~MetaOf(notifyMetaByStation', poll.prefix).notified
       /\ \A p \in DOMAIN notifyMetaByStation :
            (/\ notifyMetaByStation[p].notified
             /\ ~MetaOf(notifyMetaByStation', p).notified)
              => (PollDecides /\ poll.prefix = p /\ poll.freePorts = 0)]_vars

\* C13: the previous free-port count a poll cycle uses for a station is the
\* freePorts value the state store holds for it, also in the first cycle
\* after a restart, and the restart itself sends nothing.
C13_RecordSurvivesRestart ==
    [][/\ (/\ poll.pc = "fetch"
           /\ poll'.pc = "decide"
           /\ poll'.prefix \in DOMAIN states
           /\ states[poll'.prefix].freePorts # Undefined)
            => poll'.prevFree = states[poll'.prefix].freePorts
       /\ (lastFreePortsByStation # <<>> /\ lastFreePortsByStation' = <<>>)
            => out' = <<>>]_vars

(***************************************************************************)
(* Message fan-out                                                         *)
(***************************************************************************)
\* the positions of the selected channels whose sendTo throws / returns
ThrowingAt == {i \in 1..Len(fan.selected) : fan.selected[i].instance \in fan.throws}
ReturningAt == {i \in 1..Len(fan.selected) : fan.selected[i].instance \notin fan.throws}

\* C14: sendMessageToChannels makes exactly one send attempt per selected
\* channel, in order, whichever of them throw; no exception reaches the
\* caller; ok counts the sends that returned and failed those that threw.
C14_FanoutResilience ==
    fan.op \in {"testNotify", "notifySubscribers"} =>
        /\ Len(fan.sent) = Len(fan.selected)
        /\ \A i \in 1..Len(fan.selected) :
              fan.sent[i].instance = fan.selected[i].instance
        /\ ~fan.raised
        /\ fan.ok = Cardinality(ReturningAt)
        /\ fan.failed = Cardinality(ThrowingAt)

\* three selected channels, the second throws: ok 2, failed 1, and the first
\* and the third were still handed their message
C14_Witness ==
    /\ fan.op = "testNotify"
    /\ Len(fan.selected) = 3
    /\ ThrowingAt = {2}
    /\ fan.ok = 2 /\ fan.failed = 1
    /\ ~fan.sent[1].threw /\ ~fan.sent[3].threw

\* C15: whatever the sending operation (a notification, a station test, the
\* tools.testNotify trigger, the testChannel command), every instance handed
\* to sendTo belongs to a supported family.
C15_SupportedFamilyOnly ==
    \A i \in 1..Len(fan.sent) : fan.sent[i].instance[1] \in SupportedFamilies

\* the instances handed to sendTo, in order
SentInstances == [i \in 1..Len(fan.sent) |-> fan.sent[i].instance]

\* the instances of the entries of a channel list that are enabled, name an
\* instance and belong to a supported family
KeptInstances(items) ==
    LET kept == SelectSeq(items,
                  LAMBDA c : /\ c.enabled
                             /\ c.instance # <<>>
                             /\ c.instance[1] \in SupportedFamilies)
    IN [i \in 1..Len(kept) |-> kept[i].instance]

\* the operation sends to the kept channels of the channels setting, read as
\* a list when its raw shape is in usable and as the empty list otherwise;
\* a subscriptions setting of any other shape counts as no subscription
SkipsAndTreatsAsEmpty(usable) ==
    LET channels == IF config.channelsKind \in usable
                    THEN config.channels ELSE <<>>
    IN /\ fan.op = "testNotify" =>
            ~fan.raised /\ SentInstances = KeptInstances(channels)
       /\ (fan.op = "notifySubscribers"
             /\ config.subscriptionsKind \notin usable) =>
            ~fan.raised /\ SentInstances = KeptInstances(channels)

\* C16 as stated: disabled channels, channels without instance and channels
\* of an unsupported family are skipped and the others still get the
\* message; a channels or subscriptions value that is not an array (or a
\* string holding one) is treated as the empty list without an error.
C16_NonArrayIsEmpty == SkipsAndTreatsAsEmpty({"array", "jsonArray"})

\* C16, amended: an object is read as the list of its values as well; only
\* a value that is no array after that (a number, an unparsable string, a
\* string that parses to something else) is treated as the empty list.
C16_SkipsAndParses == SkipsAndTreatsAsEmpty({"array", "jsonArray", "object"})

\* the channels setting is an object whose values include a disabled
\* channel, one without instance and one of an unsupported family: the three
\* others got the message
C16_Witness ==
    /\ fan.op = "testNotify"
    /\ config.channelsKind = "object"
    /\ config.channels = ChannelList3
    /\ Len(fan.sent) = 3

\* the enabled subscriptions that match the station notifySubscribers was
\* called for
MatchingSubscriptions ==
    {i \in 1..Len(getSubscriptions) :
        SubscriptionMatches(getSubscriptions[i], fan.stationPrefixRel,
                            fan.stationName)}

ActiveChannelSet ==
    {getActiveChannels(<<>>)[i] : i \in 1..Len(getActiveChannels(<<>>))}

SentChannelSet == {fan.sent[i].channel : i \in 1..Len(fan.sent)}

\* the channel's label equals the subscription's recipient, ignoring case
\* and surrounding blanks
LabelIsRecipient(c, s) ==
    toLowerCase(trim(c.label)) = toLowerCase(trim(s.recipient))

\* C17 as stated: with a matching subscription notifySubscribers sends to
\* exactly the active channels whose label equals the recipient of a
\* matching subscription, and to all active channels when none matches.
C17_LabelEqualsRecipient ==
    fan.op = "notifySubscribers" =>
        SentChannelSet =
            IF MatchingSubscriptions # {}
            THEN {c \in ActiveChannelSet :
                    \E i \in MatchingSubscriptions :
                        LabelIsRecipient(c, getSubscriptions[i])}
            ELSE ActiveChannelSet

\* C17, amended: a matching subscription whose recipient is empty selects no
\* channel (not the channels with an empty label) and still keeps the
\* fallback to all channels from happening.
C17_NamedRecipientsOnly ==
    fan.op = "notifySubscribers" =>
        SentChannelSet =
            IF MatchingSubscriptions # {}
            THEN {c \in ActiveChannelSet :
                    \E i \in MatchingSubscriptions :
                        /\ trim(getSubscriptions[i].recipient) # <<>>
                        /\ LabelIsRecipient(c, getSubscriptions[i])}
            ELSE ActiveChannelSet

\* two subscriptions match, one without recipient: the channel labelled as
\* the other's recipient got the message, the active channel without label
\* did not
C17_Witness ==
    /\ fan.op = "notifySubscribers"
    /\ \E i \in MatchingSubscriptions :
          trim(getSubscriptions[i].recipient) = <<>>
    /\ SentChannelSet # {}
    /\ \E c \in ActiveChannelSet \ SentChannelSet : c.label = <<>>

\* C18: no payload handed to sendTo, by sendMessageToChannels or by the
\* testChannel command, has a key whose value is undefined.
C18_NoUndefinedKeys ==
    \A i \in 1..Len(fan.sent) :
        \A k \in DOMAIN fan.sent[i].payload :
            fan.sent[i].payload[k] # JsUndefined

\* a whatsapp-cmb channel without user was sent to: its payload has no
\* phone, number or to key
C18_Witness ==
    \E i \in 1..Len(fan.sent) :
        /\ fan.sent[i].instance[1] = "whatsapp-cmb."
        /\ fan.sent[i].channel.user = <<>>
        /\ {"phone", "number", "to"} \cap DOMAIN fan.sent[i].payload = {}
        /\ "text" \in DOMAIN fan.sent[i].payload

AddressKeys == {"user", "phone", "number", "to"}

\* payload[k] as JavaScript reads it: undefined for a missing key
Field(p, k) == IF k \in DOMAIN p THEN p[k] ELSE JsUndefined

\* the payload p for channel ch carries the text and the recipient where the
\* channel's family expects them
ShapedFor(ch, p, text) ==
    /\ ch.instance[1] = "telegram." =>
          /\ Field(p, "text") = Str(text)
          /\ ("user" \in DOMAIN p) = (ch.user # <<>>)
          /\ ch.user # <<>> => Field(p, "user") = Str(ch.user)
    /\ ch.instance[1] = "whatsapp-cmb." =>
          /\ Field(p, "text") = Str(text)
          /\ Field(p, "message") = Str(text)
          /\ ch.user # <<>> =>
                \A k \in {"phone", "number", "to"} :
                    Field(p, k) = Str(ch.user)
    /\ ch.instance[1] = "pushover." =>
          /\ Field(p, "message") = Str(text)
          /\ AddressKeys \cap DOMAIN p = {}

\* C19: sendMessageToChannels shapes each payload by the adapter family of
\* its channel: telegram gets text and, when configured, user; whatsapp-cmb
\* gets the recipient in phone, number and to and the text in text and
\* message; pushover gets the text in message and no address field.
C19_PayloadShapes ==
    fan.op \in {"testNotify", "notifySubscribers"} =>
        \A i \in 1..Len(fan.sent) :
            ShapedFor(fan.sent[i].channel, fan.sent[i].payload, fan.text)

\* one operation sent to a telegram channel, to a whatsapp-cmb channel with a
\* recipient and to a pushover channel that has a user configured
C19_Witness ==
    /\ fan.op \in {"testNotify", "notifySubscribers"}
    /\ \E i \in 1..Len(fan.sent) : fan.sent[i].instance[1] = "telegram."
    /\ \E i \in 1..Len(fan.sent) :
          /\ fan.sent[i].instance[1] = "whatsapp-cmb."
          /\ "phone" \in DOMAIN fan.sent[i].payload
    /\ \E i \in 1..Len(fan.sent) :
          /\ fan.sent[i].instance[1] = "pushover."
          /\ fan.sent[i].channel.user # <<>>

(***************************************************************************)
(* Port normalization                                                      *)
(***************************************************************************)
EmptyStub == [status |-> "", statusV2 |-> ""]

\* the first port a response lists, or the empty stub
FirstOrStub(data) ==
    IF data.ok /\ Len(data.ports) > 0 THEN data.ports[1] ELSE EmptyStub

\* the logical port p has the outlet number n and the status fields of raw
SameAs(p, n, raw) ==
    /\ p.outletNumber = n
    /\ p.status = raw.status
    /\ p.statusV2 = raw.statusV2

\* C20: with a second device id there are exactly two logical ports, outlet
\* 1 from the first port of response 1 and outlet 2 from the first port of
\* response 2 (a stub when there is none), and portCount is 2; without one
\* the ports of response 1 are used unchanged and portCount is their
\* number.  Device 1 available and device 2 charging give portCount 2,
\* freePorts 1 and the derived status in_use.
C20_LogicalPorts ==
    /\ norm.hasSecondId =>
          /\ Len(norm.ports) = 2
          /\ SameAs(norm.ports[1], 1, FirstOrStub(norm.data1))
          /\ SameAs(norm.ports[2], 2, FirstOrStub(norm.data2))
          /\ norm.portCount = 2
    /\ ~norm.hasSecondId =>
          /\ norm.ports = (IF norm.data1.ok THEN norm.data1.ports ELSE <<>>)
          /\ norm.portCount = Len(norm.ports)
    /\ ( /\ norm.hasSecondId
         /\ FirstOrStub(norm.data1) = [status |-> "", statusV2 |-> "AVAILABLE"]
         /\ FirstOrStub(norm.data2) = [status |-> "charging", statusV2 |-> ""] )
       => /\ norm.portCount = 2
          /\ norm.freePorts = 1
          /\ norm.derived = "in_use"

\* a dual-device station whose first response lists two ports, the first
\* available, and whose second response reports charging
C20_Witness ==
    /\ norm.hasSecondId
    /\ Len(norm.data1.ports) = 2
    /\ FirstOrStub(norm.data1) = [status |-> "", statusV2 |-> "AVAILABLE"]
    /\ FirstOrStub(norm.data2) = [status |-> "charging", statusV2 |-> ""]
    /\ norm.portCount = 2 /\ norm.freePorts = 1 /\ norm.derived = "in_use"

(***************************************************************************)
(* The poll cycle                                                          *)
(***************************************************************************)
\* the port counts as free: its statusV2, or its status when it has no
\* statusV2, reads available in any letter case
ReadsAvailable(p) ==
    LET raw == IF p.statusV2 # "" THEN p.statusV2 ELSE p.status
    IN raw \in {"available", "AVAILABLE"}

\* the step just processed an enabled station
ProcessedEnabled == io.kind = "station" /\ io.statusDerived # "deaktiviert"

NormalizedStatus(p) ==
    LET raw == IF p.statusV2 # "" THEN p.statusV2 ELSE p.status
    IN IF raw = "" THEN "unknown"
       ELSE IF raw = "AVAILABLE" THEN "available"
       ELSE raw

AnyPortIn(ports, S) ==
    \E k \in 1..Len(ports) : NormalizedStatus(ports[k]) \in S

\* C22: the derived status follows the fixed precedence in_use (any port
\* in_use, charging or occupied), available (any port available),
\* unavailable (any port unavailable, out_of_service, faulted or offline),
\* else the normalized status of the first port, unknown for no ports; one
\* charging and one available port give in_use in either order.
C22_StatusPrecedence ==
    /\ AnyPortIn(norm.ports, {"in_use", "charging", "occupied"})
          => norm.derived = "in_use"
    /\ ( /\ ~AnyPortIn(norm.ports, {"in_use", "charging", "occupied"})
         /\ AnyPortIn(norm.ports, {"available"}) )
          => norm.derived = "available"
    /\ ( /\ ~AnyPortIn(norm.ports, {"in_use", "charging", "occupied",
                                     "available"})
         /\ AnyPortIn(norm.ports, {"unavailable", "out_of_service",
                                    "faulted", "offline"}) )
          => norm.derived = "unavailable"
    /\ ( /\ norm.ports # <<>>
         /\ ~AnyPortIn(norm.ports, {"in_use", "charging", "occupied",
                                     "available", "unavailable",
                                     "out_of_service", "faulted", "offline"}) )
          => norm.derived = NormalizedStatus(norm.ports[1])
    /\ norm.ports = <<>> => norm.derived = "unknown"

\* a single-device station lists an available port before a charging one:
\* the derived status is in_use
C22_Witness ==
    /\ ~norm.hasSecondId
    /\ Len(norm.ports) = 2
    /\ NormalizedStatus(norm.ports[1]) = "available"
    /\ NormalizedStatus(norm.ports[2]) = "charging"
    /\ norm.derived = "in_use"

\* the device ids of a configured station, in fetch order
DeviceIds(st) ==
    <<st.deviceId1>> \o (IF st.deviceId2 # <<>> THEN <<st.deviceId2>> ELSE <<>>)

\* the step just processed a station and every fetch made for it failed
AllFetchesFailed ==
    /\ io.kind = "station"
    /\ io.failed = {io.fetched[k] : k \in 1..Len(io.fetched)}

\* C23: a failed fetch yields null data and raises nothing: an enabled
\* station whose fetches all failed is processed all the same, with
\* statusDerived unknown, freePorts 0 and lastUpdate written; and every
\* cycle fetches every device of the station again, whatever happened in
\* the cycle before.
C23_FetchFailure ==
    /\ io.kind = "station" =>
          /\ io.fetched = DeviceIds(config.stations[io.i])
          /\ poll.pc # "idle"
    /\ (AllFetchesFailed /\ config.stations[io.i].enabled) =>
          /\ io.statusDerived = "unknown"
          /\ io.freePorts = 0
          /\ io.lastUpdate = now
          /\ states[io.prefix].statusDerived = "unknown"
          /\ states[io.prefix].freePorts = 0
          /\ poll.pc = "decide"

\* both fetches of a dual-device station failed, in a cycle after one in
\* which they had failed already
C23_Witness ==
    /\ AllFetchesFailed
    /\ Len(io.fetched) = 2
    /\ io.prefix \in DOMAIN lastFreePortsByStation
    /\ states[io.prefix].statusDerived = "unknown"

\* the step is the poll cycle's real notification for its station
PollSends == obs'.kind = "sent" /\ obs'.caller = "poll" /\ out' # <<>>

\* C24: a poll cycle sends no real notification for a station for which a
\* device fetch failed in that cycle, be it the only fetch of a
\* single-device station or one or both fetches of a dual-device station.
C24_NoNotifyOnDegradedData == [][PollSends => poll.failed = {}]_vars

\* the station objects under prefix belong to a station of the configuration
StillConfigured(prefix) ==
    \E k \in 1..Len(config.stations) :
        getStationKey(config.stations[k]) = prefix[2]

\* C25: no step of a poll cycle deletes the persisted objects (among them
\* the notifyOnAvailable state) of a station that is in the configuration,
\* whatever the fetches returned and whatever city they reported.
C25_ConfiguredStationsKept ==
    [][\A prefix \in DOMAIN states :
          StillConfigured(prefix) => prefix \in DOMAIN states']_vars

\* the step ends the running poll cycle
CycleEnds == poll.pc # "idle" /\ poll'.pc = "idle"

\* C26: whatever fails while a station is processed, the stations after it
\* in the list are still processed in the same cycle: a cycle never ends
\* with a station of the list left out.
C26_LaterStationsProcessed ==
    [][CycleEnds => (poll.pc = "cleanup" \/ poll.i >= Len(config.stations))]_vars

\* the step just processed a station that is disabled in the configuration
ProcessedDisabled == io.kind = "station" /\ ~config.stations[io.i].enabled

\* what holds of a disabled station apart from the fetch: the sentinel
\* status and zero counts are written, no transition record is kept, and no
\* notification attempt is made for it
DisabledWritesOnly ==
    /\ ProcessedDisabled =>
          /\ io.statusDerived = "deaktiviert"
          /\ states[io.prefix].statusDerived = "deaktiviert"
          /\ states[io.prefix].freePorts = 0
          /\ states[io.prefix].portCount = 0
          /\ io.prefix \notin DOMAIN lastFreePortsByStation
    /\ obs.kind \in {"called", "sent"} =>
          \A k \in 1..Len(config.stations) :
              config.stations[k].name = obs.stationName
                  => config.stations[k].enabled

\* C27: for a disabled station a poll cycle performs no HTTP fetch, writes
\* the sentinel status and 0 for freePorts and portCount, leaves its
\* transition record alone, and no notification is sent for it.
C27_DisabledShortCircuit ==
    /\ ProcessedDisabled => io.fetched = <<>>
    /\ DisabledWritesOnly

\* the transition record as the previous cycle left it
CommittedBefore(prefix) ==
    IF prefix \in DOMAIN cycleStart THEN cycleStart[prefix] ELSE Undefined

RecordNow(prefix) ==
    IF prefix \in DOMAIN lastFreePortsByStation
    THEN lastFreePortsByStation[prefix] ELSE Undefined

\* the poll cycle is between the persisting of a station's new values and
\* the commit of its transition record
StationInHand == poll.pc \in {"decide", "attempt"}

\* while a station is in hand its new freePorts is in the state store, the
\* value the transition test uses is the record of the previous cycle, and
\* that record is still in place; no attempt is pending when the next
\* station's fetches start
OrderWithinStation ==
    /\ StationInHand =>
          /\ states[poll.prefix].freePorts = poll.freePorts
          /\ poll.prevFree = CommittedBefore(poll.prefix)
          /\ RecordNow(poll.prefix) = CommittedBefore(poll.prefix)
    /\ poll.pc = "attempt" => becameFree(poll.prevFree, poll.freePorts)
    /\ poll.pc \in {"fetch", "cleanup", "idle"} => attempt["poll"].pc = "idle"

\* the step that leaves a station writes its new freePorts to the record and
\* moves on to the next station
CommitOnLeaving ==
    (StationInHand /\ ~StationInHand')
        => /\ poll.prefix \in DOMAIN lastFreePortsByStation'
           /\ lastFreePortsByStation'[poll.prefix] = poll.freePorts
           /\ poll'.i = poll.i + 1

AllStationsProcessed ==
    /\ poll.pc = "cleanup"
    /\ poll.i = Len(config.stations) + 1

\* C29: a fetch ends with data or is abandoned (null), so a poll cycle that
\* has started reaches the end of its station loop.
C29_CycleFinishes == (poll.pc = "fetch" /\ poll.i = 1) ~> AllStationsProcessed

\* the last station of the cycle has been processed although every one of
\* its fetches was abandoned
C29_Witness ==
    /\ io.kind = "station"
    /\ io.i = Len(config.stations)
    /\ io.fetched # <<>>
    /\ io.failed = {io.fetched[k] : k \in DOMAIN io.fetched}
    /\ poll.pc \in {"fetch", "decide", "cleanup"}

\* C30: a poll cycle's real notification is the first of the station's free
\* phase, also when the timer has started a cycle while another one was in
\* progress: two cycles do not both take the recorded 0 for one change to
\* free and both send.
C30_OneSendPerTransition ==
    [][PollSends => sentInPhase[poll.stationName] = 0]_vars

(***************************************************************************)
(* Records and keys                                                        *)
(***************************************************************************)
Quiescent == poll.pc = "idle" /\ car.pc = "idle"

\* C31: while no poll cycle and no car-SoC handler is in progress, a station
\* whose notified flag is true has a committed free-port count above 0.
C31_NotifiedOnlyWhileFree ==
    Quiescent =>
        \A p \in DOMAIN notifyMetaByStation :
            notifyMetaByStation[p].notified => RecordNow(p) > 0

\* C32: the key a station's records are stored under is not the key of
\* another configured station: a station step of a poll cycle never uses a
\* prefix that an earlier station of the same cycle has used.
C32_DistinctStationKeys ==
    [][io'.kind = "station" => io'.prefix \notin poll.currentPrefixes]_vars

\* the prefixes under which a station of this name has been processed so far
PrefixesOfName(name) ==
    {p \in DOMAIN stationInfoByPrefix : stationInfoByPrefix[p].name = name}

\* C33: a station is processed under the same key in every poll cycle, also
\* in a cycle in which its fetch fails or the API reports another city, so
\* that its transition record and notify meta of earlier cycles are the ones
\* in use.
C33_StableStationKey ==
    [][io'.kind = "station"
         => PrefixesOfName(config.stations[io'.i].name) \subseteq {io'.prefix}]_vars

\* the step belongs to an attempt that the poll cycle makes
PollAttemptStep == obs'.caller = "poll" /\ obs'.kind # "none"

\* C34: the poll cycle attempts a notification for a station only in the
\* cycle that finds the recorded count 0 and a new count above 0; in later
\* cycles of the free phase the recorded count is above 0 and the poll cycle
\* makes no attempt, whatever became of the first one.
C34_PollAttemptsOnEdgeOnly ==
    [][PollAttemptStep
         => /\ RecordNow(poll.prefix) = 0
            /\ poll.prevFree = 0
            /\ poll.freePorts > 0]_vars

\* the poll cycle's attempt at the edge has just been declined by the
\* filters: nothing is marked as notified, and the count above 0 is
\* committed, so the next cycle of this free phase finds no edge
C34_Witness ==
    /\ obs.caller = "poll" /\ obs.kind = "filtered"
    /\ RecordNow(obs.prefix) > 0
    /\ obs.prefix \in DOMAIN notifyMetaByStation
    /\ ~notifyMetaByStation[obs.prefix].notified
    /\ sentInPhase[obs.stationName] = 0

\* an attempt has passed all gates in this step (lines 1273-1275)
GatesPassed == obs'.kind = "sent"

C36_ReturnedCountsAreActual ==
    fan.op = "notifySubscribers" =>
        /\ fan.returned.ok = CountOk(fan.sent)
        /\ fan.returned.failed = CountFailed(fan.sent)


\* a step of a test handler
TestStep == obs'.kind = "test"

\* C37: a test notification (a station's testNotify button, tools.testNotifyAll,
\* the testStation command) goes to the station's targets whatever the
\* notified flag, the cooldown and the SoC and distance filters say, and it
\* leaves the notified flags, the lastSent timestamps, the transition records
\* and everything else a real notification depends on as they were.
C37_TestsBypassGatesAndKeepRecords ==
    [][TestStep =>
         /\ UNCHANGED <<notifyMetaByStation, lastFreePortsByStation, states,
                        carSoc, stationPrefixes, stationInfoByPrefix, poll, car,
                        attempt, now>>
         /\ obs'.prefix # <<>> =>
               out' = notifySubscribers(obs'.prefix, obs'.stationName, TRUE)
         /\ obs'.caller = "testNotifyAll" =>
               \A p \in DOMAIN states :
                   /\ states[p].notifyOnAvailable
                   /\ notifySubscribers(p, states[p].name, TRUE) # <<>>
                   => \E k \in 1..Len(out') :
                         out'[k].station = states[p].name /\ out'[k].isTest]_vars

\* a station test was sent although the station is marked as notified and
\* its last real notification went out at this very minute
C37_Witness ==
    /\ obs.kind = "test"
    /\ obs.prefix \in DOMAIN notifyMetaByStation
    /\ notifyMetaByStation[obs.prefix].notified
    /\ notifyMetaByStation[obs.prefix].lastSent = now
    /\ out # <<>>
    /\ \A k \in 1..Len(out) : out[k].isTest


(***************************************************************************)
(* Unloading                                                               *)
(***************************************************************************)
\* the timer's callback starts a poll cycle
TimerStartsCycle ==
    lifecycle.onReady = "done" /\ poll.pc = "idle" /\ poll'.pc = "fetch"

\* C38: once onUnload has run the interval timer starts no poll cycle any
\* more, also when onUnload ran while onReady was still waiting for its
\* first updateAllStations call and had not created the timer yet.
C38_NoCycleAfterUnload == [][TimerStartsCycle => ~lifecycle.unloaded]_vars


(***************************************************************************)
(* Writes to the state store                                               *)
(***************************************************************************)
\* the station states that hold a value, lastUpdate apart
StationValues ==
    {"name", "city", "deviceId1", "deviceId2", "enabled", "notifyOnAvailable",
     "distanceM", "portCount", "freePorts", "statusDerived", "statusAgeMin"}

SamePortValues(a, b) ==
    /\ Len(a) = Len(b)
    /\ \A i \in 1..Len(a) :
          a[i].status = b[i].status /\ a[i].statusV2 = b[i].statusV2

\* two state stores hold the same objects, and the same values in the
\* given station states and in the port states
SameStore(a, b, fields) ==
    /\ DOMAIN a = DOMAIN b
    /\ \A p \in DOMAIN a :
          /\ \A f \in fields : a[p][f] = b[p][f]
          /\ SamePortValues(a[p].ports, b[p].ports)

\* the station step just taken, taken once more at time t over the same
\* responses
StepAgain(t) ==
    stationStep(states, io.prefix, config.stations[io.i],
                pickCity(io.data1, io.data2), GpsDistance(io.data1, io.data2),
                io.ports, t)

\* the times of a following cycle: at once, or one interval later
LaterTimes == {now, now + TickMin}

\* a second pass over the same responses creates no object and changes no
\* value outside skip, and writes nothing else through updateStateIfChanged
IdempotentExcept(skip) ==
    io.kind = "station" =>
        \A t \in LaterTimes :
            /\ SameStore(StepAgain(t).store, states, StationValues \ skip)
            /\ StepAgain(t).written \subseteq {0} \X skip

\* updateStateIfChanged has written exactly the states that had no value
\* or another one
WritesWhatChanged ==
    io'.kind = "station" =>
        LET prefix == io'.prefix
            fresh == prefix \notin DOMAIN states
            field == [portCount |-> "portCount", freePorts |-> "freePorts",
                      statusDerived |-> "statusDerived",
                      statusAgeMin |-> "statusAgeMin"]
        IN /\ \A id \in DOMAIN field :
                 (<<0, id>> \in io'.written) <=>
                     (fresh \/ states[prefix][field[id]] # states'[prefix][field[id]])
           /\ (<<0, "distance.m">> \in io'.written) <=>
                 /\ states'[prefix].distanceM # Undefined
                 /\ fresh \/ states[prefix].distanceM # states'[prefix].distanceM
           /\ \A i \in 1..Len(io'.ports) : \A f \in {"status", "statusV2"} :
                 (<<i, f>> \in io'.written) <=>
                     \/ fresh
                     \/ i > Len(states[prefix].ports)
                     \/ states[prefix].ports[i][f] # states'[prefix].ports[i][f]

\* C39 (as the code has it): the state writes of a poll cycle are upserts:
\* a second poll over the same API responses creates no object and leaves
\* every station and port value identical apart from the lastUpdate
\* timestamps and statusAgeMin, the age of the derived status in minutes;
\* updateStateIfChanged writes a state exactly when it has no value yet or
\* holds a different one.
C39_IdempotentUpserts ==
    /\ []IdempotentExcept({"statusAgeMin"})
    /\ [][WritesWhatChanged]_vars

\* C39 as stated: apart from lastUpdate every value is identical after the
\* second poll.
C39_OnlyLastUpdateDiffers == IdempotentExcept({})

\* a station polled again one interval later over the same responses:
\* nothing but statusAgeMin was written through updateStateIfChanged
C39_Witness ==
    /\ io.kind = "station"
    /\ io.written = {<<0, "statusAgeMin">>}
    /\ states[io.prefix].statusAgeMin = TickMin
    /\ states[io.prefix].lastUpdate = now
    /\ states[io.prefix].ports # <<>>


(***************************************************************************)
(* Derived status and free ports                                           *)
(***************************************************************************)
\* C40: for every port list a poll produces, the derived status and
\* freePorts agree: `available` means at least one free port and no port
\* in_use, charging or occupied; a free port means the derived status is
\* in_use or available; an empty port list gives freePorts 0 and `unknown`.
C40_StatusAgreesWithFreePorts ==
    /\ norm.derived = "available" =>
          /\ norm.freePorts >= 1
          /\ ~AnyPortIn(norm.ports, {"in_use", "charging", "occupied"})
    /\ norm.freePorts >= 1 => norm.derived \in {"in_use", "available"}
    /\ norm.ports = <<>> => norm.freePorts = 0 /\ norm.derived = "unknown"

\* a free port next to a charging one: freePorts is 1, the status in_use
C40_Witness ==
    /\ Len(norm.ports) = 2
    /\ norm.freePorts = 1
    /\ AnyPortIn(norm.ports, {"charging"})
    /\ norm.derived = "in_use"

====
